---- MODULE Spec2Model ----
(***************************************************************************)
(* Model of the SqliteDatabase reconciler                                  *)
(* (internal/controller/sqlitedatabase_controller.go).                     *)
(*                                                                         *)
(* The store holds one SqliteDatabase object (the "spec object") and the   *)
(* six dependent objects the reconciler derives from it.  Every call to    *)
(* the store (Get, Create, Update, Status().Update) is one atomic step of  *)
(* a reconcile invocation; the environment edits or deletes the spec       *)
(* object, garbage-collects owned objects, reports workload readiness and  *)
(* may create an unowned object under a dependent's name.                  *)
(***************************************************************************)
EXTENDS Integers, Sequences, FiniteSets, TLC

\* ---------------------------------------------------------------- bounds
\* Rare events of one behaviour, counted together: edits of the spec, objects
\* created by somebody else under a dependent's name, transient store errors.
MaxEvents == 1
MaxReady == 1        \* largest ready-replica count the workload reports
MaxNameLen == 2      \* longest plain identity name
MaxConds == 3        \* longest condition list a stored status starts with

\* ------------------------------------------------------ program constants
DefaultPort == 8080
DefaultMetricsPort == 8081
ServicePort == 8080
ServiceMetricsPort == 8081
IngressBackendPort == 8080

Procs == {"a", "b"}           \* reconcile invocations that may be in flight
SeqProc == "a"                \* the worker of the serialising scheduler
Owner == "N"                  \* identity of the spec object

Kinds == {"pvc", "lscfg", "restcfg", "deploy", "svc", "ing"}
StepOrder == <<"pvc", "lscfg", "restcfg", "deploy", "svc", "ing", "status">>

\* ------------------------------------------------------------ spec values
\* Optional sub-configs are "nil" (pointer unset), "on" or "off" (Enabled).
\* Strings are "" when unset.  Ports are 0 where the sub-config is nil.
Names == {""}
Sizes == {"", "2Gi"}
OtherPort == DefaultPort + 1010             \* an API port that is not the default
Hosts == {"", "db.example.com"}

RestParts ==
  {[rest |-> "nil", port |-> 0, metrics |-> "nil", metricsPort |-> 0],
   [rest |-> "off", port |-> DefaultPort, metrics |-> "nil", metricsPort |-> 0],
   [rest |-> "on", port |-> DefaultPort, metrics |-> "on",
    metricsPort |-> DefaultMetricsPort],
   [rest |-> "on", port |-> OtherPort, metrics |-> "nil", metricsPort |-> 0]}

IngressParts ==
  {[ingress |-> "nil", host |-> ""], [ingress |-> "off", host |-> ""]}
  \cup {[ingress |-> "on", host |-> h] : h \in Hosts}

\* nameKey tells whether the stored object carries the key database.name.
\* The schema gives the name a default, which the store fills in where the
\* key is missing from a database part; the size must match a pattern the
\* empty string does not match.  So a stored spec with a size and the empty
\* name carries the key with the empty string (what a client that sends the
\* Go struct writes: the field is not omitempty), and a spec with neither has
\* no database part and no key.
MkSpec(n, sz, ls, rp, ip) ==
  [name |-> n, nameKey |-> (n # "" \/ sz # ""),
   size |-> sz, accessMode |-> "", litestream |-> ls,
   rest |-> rp.rest, port |-> rp.port, metrics |-> rp.metrics,
   metricsPort |-> rp.metricsPort, ingress |-> ip.ingress, host |-> ip.host]

RawSpecs ==
  {MkSpec(n, sz, ls, rp, ip) :
     n \in Names, sz \in Sizes, ls \in {"nil", "on", "off"},
     rp \in RestParts, ip \in IngressParts}

\* setDefaults: fill the unset fields of the working copy.
setDefaultsOverApi(s) ==
  LET s1 == IF s.name = "" THEN [s EXCEPT !.name = "database.db"] ELSE s
      s2 == IF s1.size = "" THEN [s1 EXCEPT !.size = "1Gi"] ELSE s1
      s3 == IF s2.litestream = "nil" THEN [s2 EXCEPT !.litestream = "on"] ELSE s2
      s4 == [s3 EXCEPT !.rest = "off", !.port = DefaultPort,
                       !.metrics = "on", !.metricsPort = DefaultMetricsPort]
      s5 == IF s4.accessMode = "" THEN [s4 EXCEPT !.accessMode = "ReadWriteMany"] ELSE s4
      s6 == IF s5.ingress = "nil" THEN [s5 EXCEPT !.ingress = "off"] ELSE s5
  IN  s6
setDefaults(s) ==
  LET s1 == IF s.name = "" THEN [s EXCEPT !.name = "database.db"] ELSE s
      s2 == IF s1.size = "" THEN [s1 EXCEPT !.size = "1Gi"] ELSE s1
      s3 == IF s2.litestream = "nil" THEN [s2 EXCEPT !.litestream = "on"] ELSE s2
      s4 == IF s3.rest = "nil"
            THEN [s3 EXCEPT !.rest = "off", !.port = DefaultPort,
                            !.metrics = "on", !.metricsPort = DefaultMetricsPort]
            ELSE s3
      s5 == IF s4.accessMode = "" THEN [s4 EXCEPT !.accessMode = "ReadWriteMany"] ELSE s4
      s6 == IF s5.ingress = "nil" THEN [s5 EXCEPT !.ingress = "off"] ELSE s5
  IN  s6

LitestreamEnabled(s) == s.litestream = "on"
RestEnabled(s) == s.rest = "on"
IngressEnabled(s) == s.ingress = "on"
MetricsEnabled(s) == s.metrics = "on"

\* StepEnabled: the conditions Reconcile puts around each step.
StepEnabledWorkloadByRest(s, k) ==
  CASE k = "lscfg"   -> LitestreamEnabled(s)
    [] k = "restcfg" -> RestEnabled(s)
    [] k = "deploy"  -> RestEnabled(s)
    [] k = "svc"     -> RestEnabled(s)
    [] k = "ing"     -> IngressEnabled(s)
    [] OTHER         -> TRUE
StepEnabledConfigByIngress(s, k) ==
  CASE k = "lscfg"   -> LitestreamEnabled(s)
    [] k = "restcfg" -> IngressEnabled(s)
    [] k = "svc"     -> RestEnabled(s)
    [] k = "ing"     -> IngressEnabled(s)
    [] OTHER         -> TRUE
StepEnabledServiceByIngress(s, k) ==
  CASE k = "lscfg"   -> LitestreamEnabled(s)
    [] k = "restcfg" -> RestEnabled(s)
    [] k = "svc"     -> IngressEnabled(s)
    [] k = "ing"     -> IngressEnabled(s)
    [] OTHER         -> TRUE
StepEnabled(s, k) ==
  CASE k = "lscfg"   -> LitestreamEnabled(s)
    [] k = "restcfg" -> RestEnabled(s)
    [] k = "svc"     -> RestEnabled(s)
    [] k = "ing"     -> IngressEnabled(s)
    [] OTHER         -> TRUE

StepIndex(k) == CHOOSE i \in 1..Len(StepOrder) : StepOrder[i] = k

\* The first enabled step after position i of the pipeline.
NextStepFrom(s, i) ==
  StepOrder[CHOOSE j \in (i + 1)..Len(StepOrder) :
              /\ StepEnabled(s, StepOrder[j])
              /\ \A l \in (i + 1)..(j - 1) : ~StepEnabled(s, StepOrder[l])]

\* ----------------------------------------------------------------- builders
BuildPVC(s) == [size |-> s.size, accessMode |-> s.accessMode]

BuildLitestreamConfig(s) == [path |-> s.name]

BuildSqliteRestConfig(s) ==
  [addr |-> s.port, dsn |-> s.name,
   metricsAddr |-> IF MetricsEnabled(s) THEN s.metricsPort ELSE 0]

BuildDeployment(s) ==
  [db |-> s.name,
   litestream |-> LitestreamEnabled(s),
   rest |-> RestEnabled(s),
   httpPort |-> IF RestEnabled(s) THEN s.port ELSE 0,
   metricsPort |-> IF RestEnabled(s) /\ MetricsEnabled(s) THEN s.metricsPort ELSE 0]

BuildService(s) ==
  [port |-> ServicePort, targetPort |-> s.port,
   metricsPort |-> IF MetricsEnabled(s) THEN ServiceMetricsPort ELSE 0,
   metricsTarget |-> IF MetricsEnabled(s) THEN s.metricsPort ELSE 0]

BuildIngress(s) == [host |-> s.host, backendPort |-> IngressBackendPort]

Desired(k, s) ==
  CASE k = "pvc"     -> BuildPVC(s)
    [] k = "lscfg"   -> BuildLitestreamConfig(s)
    [] k = "restcfg" -> BuildSqliteRestConfig(s)
    [] k = "deploy"  -> BuildDeployment(s)
    [] k = "svc"     -> BuildService(s)
    [] k = "ing"     -> BuildIngress(s)

\* reconcileIngress refuses to build an ingress without a hostname.
HostNeverMissing(s) == FALSE
HostMissing(s) == s.host = ""

\* ------------------------------------------------------------------- store
NoContent == [none |-> TRUE]
Absent == [exists |-> FALSE, owner |-> "", by |-> "", content |-> NoContent]

\* The object a reconcile step hands to CreateOrUpdate.
NewObject(k, s) ==
  [exists |-> TRUE, owner |-> "", by |-> "ctrl", content |-> Desired(k, s)]

\* The mutate function of every step: SetControllerReference and nothing else.
MutateToAbsent(o) == Absent
MutateUnowned(o) == o
Mutate(o) == [o EXCEPT !.owner = Owner]

\* CreateOrUpdate writes back an existing object only if mutate changed it.
NeedsUpdateAlways(existing, mutated) == TRUE
NeedsUpdate(existing, mutated) == existing # mutated

\* The store refuses a workload without containers.
ValidObject(k, o) == k = "deploy" => (o.content.litestream \/ o.content.rest)

EmptyStatus ==
  [phase |-> "", message |-> "", replicas |-> 0, rest |-> 0, metrics |-> 0,
   conditions |-> <<>>, observedGeneration |-> 0]

BlankSpec ==
  MkSpec("", "", "nil",
         [rest |-> "nil", port |-> 0, metrics |-> "nil", metricsPort |-> 0],
         [ingress |-> "nil", host |-> ""])

\* What somebody else may have put under a dependent's name.
ExternalSpec ==
  MkSpec("other.db", "5Gi", "on",
         [rest |-> "on", port |-> OtherPort, metrics |-> "on",
          metricsPort |-> DefaultMetricsPort],
         [ingress |-> "on", host |-> "other.example.com"])

\* Decoding the store's answer into the working copy: a field the stored
\* object sets replaces the working copy's, an unset one leaves it alone.
DecodeInto(w, stored) ==
  LET rest1 == IF stored.rest = "nil" THEN w
               ELSE [w EXCEPT !.rest = stored.rest, !.port = stored.port,
                              !.metrics = IF stored.metrics = "nil" THEN @ ELSE stored.metrics,
                              !.metricsPort = IF stored.metrics = "nil" THEN @
                                              ELSE stored.metricsPort]
      ing1 == IF stored.ingress = "nil" THEN rest1
              ELSE [rest1 EXCEPT !.ingress = stored.ingress,
                                 !.host = IF stored.host = "" THEN @ ELSE stored.host]
  IN  [ing1 EXCEPT
         !.name = IF stored.nameKey THEN stored.name ELSE @,
         !.size = IF stored.size = "" THEN @ ELSE stored.size,
         !.accessMode = IF stored.accessMode = "" THEN @ ELSE stored.accessMode,
         !.litestream = IF stored.litestream = "nil" THEN @ ELSE stored.litestream]

\* ----------------------------------------------------------- status deriver
\* The outcome of the workload lookup in updateStatus.
NotFoundLookup == [kind |-> "notfound", ready |-> 0]
\* The error text of a failed lookup, as %v prints it.
LookupError == "connection refused"
ErrorLookup == [kind |-> "error", ready |-> 0, err |-> LookupError]
FoundLookup(r) == [kind |-> "found", ready |-> r]
NoLookup == [kind |-> "none", ready |-> 0]

\* Phase, message, replicas and endpoints as updateStatus assigns them.
DerivePhaseStaleReplicas(st, s, lookup) ==
  CASE lookup.kind = "notfound" ->
         [st EXCEPT !.phase = "Pending", !.message = "Deployment not found"]
    [] lookup.kind = "error" ->
         [st EXCEPT !.phase = "Failed", !.message = <<"Failed to get deployment: ", lookup.err>>]
    [] lookup.kind = "found" /\ lookup.ready > 0 ->
         [st EXCEPT !.phase = "Running",
                    !.message = "Database is running successfully",
                    !.rest = IF RestEnabled(s) THEN s.port ELSE @,
                    !.metrics = IF RestEnabled(s)
                                THEN (IF MetricsEnabled(s) THEN s.metricsPort ELSE 0)
                                ELSE @]
    [] OTHER ->
         [st EXCEPT !.phase = "Pending", !.message = "Deployment is starting"]
DerivePhaseNotFoundStarting(st, s, lookup) ==
  CASE lookup.kind = "error" ->
         [st EXCEPT !.phase = "Failed", !.message = <<"Failed to get deployment: ", lookup.err>>]
    [] lookup.kind = "found" /\ lookup.ready > 0 ->
         [st EXCEPT !.phase = "Running",
                    !.message = "Database is running successfully",
                    !.replicas = lookup.ready,
                    !.rest = IF RestEnabled(s) THEN s.port ELSE @,
                    !.metrics = IF RestEnabled(s)
                                THEN (IF MetricsEnabled(s) THEN s.metricsPort ELSE 0)
                                ELSE @]
    [] OTHER ->
         [st EXCEPT !.phase = "Pending", !.message = "Deployment is starting"]
DerivePhaseErrorAsNotFound(st, s, lookup) ==
  CASE lookup.kind \in {"notfound", "error"} ->
         [st EXCEPT !.phase = "Pending", !.message = "Deployment not found"]
    [] lookup.kind = "found" /\ lookup.ready > 0 ->
         [st EXCEPT !.phase = "Running",
                    !.message = "Database is running successfully",
                    !.replicas = lookup.ready,
                    !.rest = IF RestEnabled(s) THEN s.port ELSE @,
                    !.metrics = IF RestEnabled(s)
                                THEN (IF MetricsEnabled(s) THEN s.metricsPort ELSE 0)
                                ELSE @]
    [] OTHER ->
         [st EXCEPT !.phase = "Pending", !.message = "Deployment is starting"]
DerivePhase(st, s, lookup) ==
  CASE lookup.kind = "notfound" ->
         [st EXCEPT !.phase = "Pending", !.message = "Deployment not found"]
    [] lookup.kind = "error" ->
         [st EXCEPT !.phase = "Failed", !.message = <<"Failed to get deployment: ", lookup.err>>]
    [] lookup.kind = "found" /\ lookup.ready > 0 ->
         [st EXCEPT !.phase = "Running",
                    !.message = "Database is running successfully",
                    !.replicas = lookup.ready,
                    !.rest = IF RestEnabled(s) THEN s.port ELSE @,
                    !.metrics = IF RestEnabled(s)
                                THEN (IF MetricsEnabled(s) THEN s.metricsPort ELSE 0)
                                ELSE @]
    [] OTHER ->
         [st EXCEPT !.phase = "Pending", !.message = "Deployment is starting"]

ReadyConditionAlwaysTrue(st) ==
  [type |-> "Ready", status |-> "True",
   reason |-> "ReconciliationSucceeded", message |-> st.message]
ReadyConditionInProgress(st) ==
  [type |-> "Ready", status |-> "False",
   reason |-> "ReconciliationInProgress", message |-> st.message]
ReadyCondition(st) ==
  IF st.phase # "Running"
  THEN [type |-> "Ready", status |-> "False",
        reason |-> "ReconciliationInProgress", message |-> st.message]
  ELSE [type |-> "Ready", status |-> "True",
        reason |-> "ReconciliationSucceeded", message |-> st.message]

UpsertConditionAppend(conds, c) == Append(conds, c)
\* Replace the first condition of the same type, else append.
UpsertCondition(conds, c) ==
  IF \E i \in 1..Len(conds) : conds[i].type = c.type
  THEN LET i == CHOOSE j \in 1..Len(conds) :
                  /\ conds[j].type = c.type
                  /\ \A l \in 1..(j - 1) : conds[l].type # c.type
       IN  [conds EXCEPT ![i] = c]
  ELSE Append(conds, c)

DeriveStatusKeepsConditions(st, s, lookup) == DerivePhase(st, s, lookup)
DeriveStatus(st, s, lookup) ==
  LET st1 == DerivePhase(st, s, lookup)
  IN  [st1 EXCEPT !.conditions = UpsertCondition(@, ReadyCondition(st1))]

\* ------------------------------------------------------------------- state
VARIABLES
  cr,      \* the stored spec object: exists, spec, generation, status
  objs,    \* the stored dependent objects, by kind
  ready,   \* ready-replica count the workload reports
  pc,      \* where each invocation stands
  step,    \* the pipeline step each invocation is in
  wc,      \* each invocation's working copy of the spec object
  hist,    \* what each invocation has done so far (observation only)
  env      \* budgets of the environment and observation flags; base is the
           \* stored status when the first of a run of failed invocations began

vars == <<cr, objs, ready, pc, step, wc, hist, env>>

NoCR == [exists |-> FALSE, spec |-> BlankSpec, generation |-> 0, status |-> EmptyStatus]

NoWC ==
  [spec |-> setDefaults(BlankSpec), generation |-> 0, status |-> EmptyStatus,
   fresh |-> FALSE, obj |-> Absent, objFresh |-> FALSE]

NewHist ==
  [ran |-> <<>>, wrote |-> {}, statusWrites |-> 0, result |-> "none",
   failStep |-> "none", fetched |-> FALSE, notFound |-> FALSE, obsWrote |-> 0,
   seen |-> NoLookup, quiet |-> FALSE, first |-> FALSE, clean |-> TRUE,
   resumed |-> FALSE]

Init ==
  /\ \E s \in RawSpecs :
       cr = [exists |-> TRUE, spec |-> s, generation |-> 1, status |-> EmptyStatus]
  /\ objs = [k \in Kinds |-> Absent]
  /\ ready = 0
  /\ pc = [p \in Procs |-> "idle"]
  /\ step = [p \in Procs |-> "none"]
  /\ wc = [p \in Procs |-> NoWC]
  /\ hist = [p \in Procs |-> NewHist]
  /\ env = [events |-> 0, stable |-> FALSE, pristine |-> TRUE,
            failed |-> FALSE, base |-> EmptyStatus]

\* ------------------------------------------------- control flow of Reconcile
\* The place of an invocation after a step: its pc, its step and its record.
Goto(k, h) ==
  [pc |-> IF k = "status" THEN "statusGet" ELSE "get", step |-> k, hist |-> h]

StepPos(k) == IF k \in {"fetch", "obsgen", "none"} THEN 0 ELSE StepIndex(k)

\* After step k succeeded (or was a no-op): on to the next enabled step.
Advance(s, k, h) == Goto(NextStepFrom(s, StepPos(k)), h)

Return(res, k, h) ==
  [pc |-> "done", step |-> "none",
   hist |-> [h EXCEPT !.result = res, !.failStep = k]]

\* "if err != nil { return ctrl.Result{}, err }" after every step.
ContinueAfterError(s, k, h) ==
  IF k = "status" THEN Return("err", k, h)
  ELSE Advance(s, k, [h EXCEPT !.failStep = k])
StatusBeforeHostError(s, k, h) ==
  IF k = "ing" THEN Goto("status", h) ELSE Return("err", k, h)
ReturnError(s, k, h) == Return("err", k, h)

\* "if errors.IsNotFound(err) { return ctrl.Result{}, nil }" on the first fetch.
ReturnNotFoundAsError(h) == Return("err", "fetch", [h EXCEPT !.notFound = TRUE])
ReturnNotFound(h) == Return("ok", "none", [h EXCEPT !.notFound = TRUE])

\* The status the store holds after the observedGeneration write of Reconcile.
DeferObservedGeneration(stored, st) == stored
PersistObservedGeneration(stored, st) == st

\* The store rejects a write made from a copy that is no longer current.
NoConflict(fresh) == FALSE
Conflict(fresh) == ~fresh

\* A return is taken at once: nothing else happens between the last step of
\* an invocation and the scheduler's taking its result.
NoneDone == \A q \in Procs : pc[q] # "done"

Inject == IF env.events < MaxEvents THEN {FALSE, TRUE} ELSE {FALSE}

Noted(h, inj) == IF inj THEN [h EXCEPT !.clean = FALSE] ELSE h

\* The environment acted while an invocation was under way.
Disturbed ==
  [q \in Procs |-> IF pc[q] \in {"idle", "done"} THEN hist[q]
                   ELSE [hist[q] EXCEPT !.quiet = FALSE, !.clean = FALSE]]

\* Invocation p moves to place o; inj tells whether a store error was injected.
Take(p, o, inj) ==
  /\ pc' = [pc EXCEPT ![p] = o.pc]
  /\ step' = [step EXCEPT ![p] = o.step]
  /\ hist' = [hist EXCEPT ![p] = Noted(o.hist, inj)]
  /\ env' = [env EXCEPT
       !.events = IF inj THEN @ + 1 ELSE @,
       !.pristine = FALSE,
       !.stable = IF o.pc = "done"
                  THEN o.hist.result = "ok" /\ o.hist.fetched /\ ~inj
                  ELSE @,
       !.failed = IF o.pc = "done" THEN o.hist.result = "err" ELSE @,
       !.base = IF pc[p] = "idle" /\ ~env.failed THEN cr.status ELSE @]

\* Working copies after p wrote the spec object: p's is current, others are not.
AfterSpecWrite(p, w) ==
  [q \in Procs |-> IF q = p THEN [w EXCEPT !.fresh = TRUE]
                   ELSE [wc[q] EXCEPT !.fresh = FALSE]]

\* Working copies after somebody else wrote the spec object.
AllStale == [q \in Procs |-> [wc[q] EXCEPT !.fresh = FALSE]]

\* Working copies after dependent k changed under the invocations reading it.
ObjStaleNone(k, p, w) == [wc EXCEPT ![p] = w]
ObjStale(k, p, w) ==
  [q \in Procs |-> IF q = p THEN w
                   ELSE IF step[q] = k THEN [wc[q] EXCEPT !.objFresh = FALSE]
                   ELSE wc[q]]

\* ------------------------------------------------------------------ actions
\* r.Get of the spec object, setDefaults, and the observedGeneration test.
Fetch(p) ==
  /\ pc[p] = "idle"
  /\ NoneDone
  /\ \E inj \in Inject :
       LET h0 == [NewHist EXCEPT !.quiet = env.stable, !.first = env.pristine,
                                    !.resumed = env.failed]
       IN  IF inj
           THEN /\ Take(p, ReturnError(wc[p].spec, "fetch", h0), inj)
                /\ UNCHANGED <<cr, objs, ready, wc>>
           ELSE IF ~cr.exists
           THEN /\ Take(p, ReturnNotFound(h0), inj)
                /\ UNCHANGED <<cr, objs, ready, wc>>
           ELSE LET w == [spec |-> setDefaults(cr.spec), generation |-> cr.generation,
                          status |-> cr.status, fresh |-> TRUE,
                          obj |-> Absent, objFresh |-> FALSE]
                    h1 == [h0 EXCEPT !.fetched = TRUE]
                IN  /\ wc' = [wc EXCEPT ![p] = w]
                    /\ Take(p, IF w.status.observedGeneration # w.generation
                               THEN [pc |-> "obsgen", step |-> "none", hist |-> h1]
                               ELSE Goto("pvc", h1), inj)
                    /\ UNCHANGED <<cr, objs, ready>>

\* The scheduler of one controller never runs two invocations of one identity.
FetchSerial ==
  /\ \A q \in Procs : pc[q] = "idle"
  /\ Fetch(SeqProc)

\* r.Status().Update with the new observedGeneration.
ObsGen(p) ==
  /\ pc[p] = "obsgen"
  /\ NoneDone
  /\ \E inj \in Inject :
       LET w  == wc[p]
           st == [w.status EXCEPT !.observedGeneration = w.generation]
       IN  IF inj \/ ~cr.exists \/ Conflict(w.fresh)
           THEN /\ wc' = [wc EXCEPT ![p].status = st]
                /\ Take(p, ReturnError(w.spec, "obsgen", hist[p]), inj)
                /\ UNCHANGED <<cr, objs, ready>>
           ELSE LET kept == PersistObservedGeneration(cr.status, st)
                IN  /\ cr' = [cr EXCEPT !.status = kept]
                    /\ wc' = AfterSpecWrite(p, [w EXCEPT !.status = st,
                                                  !.spec = DecodeInto(w.spec, cr.spec)])
                    /\ Take(p, Goto("pvc", [hist[p] EXCEPT
                                              !.obsWrote = w.generation,
                                              !.statusWrites = @ + 1]), inj)
                    /\ UNCHANGED <<objs, ready>>

\* A reconcileX step up to the Get of CreateOrUpdate.
EnsureGet(p) ==
  /\ pc[p] = "get"
  /\ NoneDone
  /\ LET k == step[p]
         w == wc[p]
         h == [hist[p] EXCEPT !.ran = Append(@, k)]
     IN  IF k = "ing" /\ HostMissing(w.spec)
         THEN /\ Take(p, ReturnError(w.spec, k, h), FALSE)
              /\ UNCHANGED <<cr, objs, ready, wc>>
         ELSE \E inj \in Inject :
                IF inj
                THEN /\ Take(p, ReturnError(w.spec, k, h), inj)
                     /\ UNCHANGED <<cr, objs, ready, wc>>
                ELSE IF ~objs[k].exists
                THEN /\ Take(p, [pc |-> "create", step |-> k, hist |-> h], inj)
                     /\ UNCHANGED <<cr, objs, ready, wc>>
                ELSE LET mutated == Mutate(objs[k])
                     IN  IF NeedsUpdate(objs[k], mutated)
                         THEN /\ wc' = [wc EXCEPT ![p].obj = mutated,
                                                  ![p].objFresh = TRUE]
                              /\ Take(p, [pc |-> "update", step |-> k, hist |-> h], inj)
                              /\ UNCHANGED <<cr, objs, ready>>
                         ELSE /\ Take(p, Advance(w.spec, k, h), inj)
                              /\ UNCHANGED <<cr, objs, ready, wc>>

\* The Create of CreateOrUpdate.
EnsureCreate(p) ==
  /\ pc[p] = "create"
  /\ NoneDone
  /\ LET k == step[p]
         w == wc[p]
         o == Mutate(NewObject(k, w.spec))
     IN  \E inj \in Inject :
           IF inj \/ objs[k].exists \/ ~ValidObject(k, o)
           THEN /\ Take(p, ReturnError(w.spec, k, hist[p]), inj)
                /\ UNCHANGED <<cr, objs, ready, wc>>
           ELSE /\ objs' = [objs EXCEPT ![k] = o]
                /\ ready' = IF k = "deploy" THEN 0 ELSE ready
                /\ wc' = ObjStale(k, p, w)
                /\ Take(p, Advance(w.spec, k, [hist[p] EXCEPT !.wrote = @ \cup {k}]), inj)
                /\ UNCHANGED cr

\* The Update of CreateOrUpdate.
EnsureUpdate(p) ==
  /\ pc[p] = "update"
  /\ NoneDone
  /\ LET k == step[p]
         w == wc[p]
     IN  \E inj \in Inject :
           IF inj \/ ~objs[k].exists \/ Conflict(w.objFresh)
           THEN /\ Take(p, ReturnError(w.spec, k, hist[p]), inj)
                /\ UNCHANGED <<cr, objs, ready, wc>>
           ELSE /\ objs' = [objs EXCEPT ![k] = w.obj]
                /\ wc' = ObjStale(k, p, w)
                /\ Take(p, Advance(w.spec, k, [hist[p] EXCEPT !.wrote = @ \cup {k}]), inj)
                /\ UNCHANGED <<cr, ready>>

\* updateStatus up to the condition upsert: look the workload up, derive.
StatusGet(p) ==
  /\ pc[p] = "statusGet"
  /\ NoneDone
  /\ \E inj \in Inject :
       LET w == wc[p]
           lookup == IF inj THEN ErrorLookup
                     ELSE IF ~objs["deploy"].exists THEN NotFoundLookup
                     ELSE FoundLookup(ready)
       IN  /\ wc' = [wc EXCEPT ![p].status = DeriveStatus(w.status, w.spec, lookup)]
           /\ Take(p, [pc |-> "statusWrite", step |-> "status",
                       hist |-> [hist[p] EXCEPT !.ran = Append(@, "status"),
                                                !.seen = lookup]], inj)
           /\ UNCHANGED <<cr, objs, ready>>

\* The r.Status().Update that ends updateStatus.
StatusWrite(p) ==
  /\ pc[p] = "statusWrite"
  /\ NoneDone
  /\ \E inj \in Inject :
       LET w == wc[p]
       IN  IF inj \/ ~cr.exists \/ Conflict(w.fresh)
           THEN /\ Take(p, ReturnError(w.spec, "status", hist[p]), inj)
                /\ UNCHANGED <<cr, objs, ready, wc>>
           ELSE /\ cr' = [cr EXCEPT !.status = w.status]
                /\ wc' = AfterSpecWrite(p, [w EXCEPT !.spec = DecodeInto(w.spec, cr.spec)])
                /\ Take(p, Return("ok", "none",
                                  [hist[p] EXCEPT !.statusWrites = @ + 1]), inj)
                /\ UNCHANGED <<objs, ready>>

\* Reconcile has returned: the scheduler takes the result and the working
\* copy is dropped.
Finish(p) ==
  /\ pc[p] = "done"
  /\ pc' = [pc EXCEPT ![p] = "idle"]
  /\ wc' = [wc EXCEPT ![p] = NoWC]
  /\ hist' = [hist EXCEPT ![p] = NewHist]
  /\ UNCHANGED <<cr, objs, ready, step, env>>

\* -------------------------------------------------------------- environment
SameRest(s, t) ==
  /\ s.rest = t.rest /\ s.port = t.port
  /\ s.metrics = t.metrics /\ s.metricsPort = t.metricsPort

SameIngress(s, t) == s.ingress = t.ingress /\ s.host = t.host

\* The number of field groups in which two specs differ.
Differences(s, t) ==
  (IF s.name = t.name THEN 0 ELSE 1) + (IF s.size = t.size THEN 0 ELSE 1)
  + (IF s.litestream = t.litestream THEN 0 ELSE 1)
  + (IF SameRest(s, t) THEN 0 ELSE 1) + (IF SameIngress(s, t) THEN 0 ELSE 1)

\* The user edits one part of the spec; the store bumps the generation.
EditSpec ==
  /\ cr.exists
  /\ NoneDone
  /\ env.events < MaxEvents
  /\ \E s \in RawSpecs :
       /\ Differences(cr.spec, s) = 1
       /\ cr' = [cr EXCEPT !.spec = s, !.generation = @ + 1]
  /\ wc' = AllStale
  /\ hist' = Disturbed
  /\ env' = [env EXCEPT !.events = @ + 1, !.stable = FALSE]
  /\ UNCHANGED <<objs, ready, pc, step>>

\* The user deletes the spec object.
DeleteSpec ==
  /\ cr.exists
  /\ NoneDone
  /\ cr' = NoCR
  /\ wc' = AllStale
  /\ hist' = Disturbed
  /\ env' = [env EXCEPT !.stable = FALSE]
  /\ UNCHANGED <<objs, ready, pc, step>>

\* The store's garbage collector removes the objects whose owner is gone
\* (the cascade is taken as one step).
GarbageCollect ==
  /\ ~cr.exists
  /\ NoneDone
  /\ \E k \in Kinds : objs[k].exists /\ objs[k].owner = Owner
  /\ objs' = [k \in Kinds |-> IF objs[k].owner = Owner THEN Absent ELSE objs[k]]
  /\ ready' = IF objs["deploy"].owner = Owner THEN 0 ELSE ready
  /\ wc' = [q \in Procs |-> IF step[q] \in Kinds /\ objs[step[q]].owner = Owner
                            THEN [wc[q] EXCEPT !.objFresh = FALSE]
                            ELSE wc[q]]
  /\ hist' = Disturbed
  /\ env' = [env EXCEPT !.stable = FALSE]
  /\ UNCHANGED <<cr, pc, step>>

\* The workload controller reports a new ready-replica count.
WorkloadStatus ==
  /\ objs["deploy"].exists
  /\ NoneDone
  /\ \E r \in 0..MaxReady :
       /\ r # ready
       /\ ready' = r
  /\ wc' = [q \in Procs |-> IF step[q] = "deploy" THEN [wc[q] EXCEPT !.objFresh = FALSE]
                            ELSE wc[q]]
  /\ hist' = Disturbed
  /\ env' = [env EXCEPT !.stable = FALSE]
  /\ UNCHANGED <<cr, objs, pc, step>>

\* Somebody else creates an object under the name of a dependent.
ExternalCreate(k) ==
  /\ env.events < MaxEvents
  /\ NoneDone
  /\ ~objs[k].exists
  /\ objs' = [objs EXCEPT ![k] =
                [exists |-> TRUE, owner |-> "", by |-> "ext",
                 content |-> Desired(k, setDefaults(ExternalSpec))]]
  /\ ready' = IF k = "deploy" THEN 0 ELSE ready
  /\ hist' = [q \in Procs |-> [Disturbed[q] EXCEPT !.first = FALSE]]
  /\ env' = [env EXCEPT !.events = @ + 1, !.stable = FALSE, !.pristine = FALSE]
  /\ UNCHANGED <<cr, pc, step, wc>>

Environment ==
  \/ EditSpec
  \/ DeleteSpec
  \/ WorkloadStatus
  \/ GarbageCollect
  \/ \E k \in Kinds : ExternalCreate(k)

Pipeline(p) ==
  \/ ObsGen(p)
  \/ EnsureGet(p)
  \/ EnsureCreate(p)
  \/ EnsureUpdate(p)
  \/ StatusGet(p)
  \/ StatusWrite(p)

\* One controller: invocations of the identity are serialised.
Next ==
  \/ FetchSerial
  \/ \E p \in Procs : Pipeline(p)
  \/ Environment
  \/ \E p \in Procs : Finish(p)

Spec == Init /\ [][Next]_vars

\* Two controllers (no leader election): invocations of the identity overlap.
OverlapSpecs ==
  {s \in RawSpecs :
     /\ s.size = ""
     /\ s.litestream = "nil"
     /\ s.rest = "on" /\ s.port = DefaultPort
     /\ s.host # ""}

InitOverlap ==
  /\ Init
  /\ cr.spec \in OverlapSpecs

NextOverlap ==
  \/ \E p \in Procs : Fetch(p)
  \/ \E p \in Procs : Pipeline(p)
  \/ EditSpec
  \/ \E k \in Kinds : ExternalCreate(k)
  \/ \E p \in Procs : Finish(p)

SpecOverlap == InitOverlap /\ [][NextOverlap]_vars

\* ---------------------------------------------- the status deriver on its own
\* updateStatus applied to a stored status that other writers may have added
\* conditions of their own type to.
OtherCondition ==
  [type |-> "BackupReady", status |-> "True", reason |-> "BackupDone",
   message |-> "backup finished"]

PriorConditions ==
  {OtherCondition,
   [type |-> "Ready", status |-> "True", reason |-> "ReconciliationSucceeded",
    message |-> "Database is running successfully"],
   [type |-> "Ready", status |-> "False", reason |-> "ReconciliationInProgress",
    message |-> "Deployment is starting"]}

ReadyCount(conds) == Cardinality({i \in 1..Len(conds) : conds[i].type = "Ready"})

PriorConditionLists ==
  {cs \in UNION {[1..n -> PriorConditions] : n \in 0..MaxConds} : ReadyCount(cs) <= 1}

\* What an earlier status write left in phase, message, replicas, endpoints.
PriorCores ==
  {EmptyStatus,
   [EmptyStatus EXCEPT !.phase = "Running",
                       !.message = "Database is running successfully",
                       !.replicas = 1, !.rest = OtherPort,
                       !.metrics = DefaultMetricsPort]}

PriorStatuses ==
  {[core EXCEPT !.conditions = cs, !.observedGeneration = 1] :
     core \in PriorCores, cs \in PriorConditionLists}

DeriverSpecs ==
  {s \in RawSpecs : s.size = "" /\ s.litestream = "on" /\ s.ingress = "nil"}

\* The working copy r.Get and setDefaults leave in Reconcile.
FetchedCopy(c) ==
  [spec |-> setDefaults(c.spec), generation |-> c.generation, status |-> c.status,
   fresh |-> TRUE, obj |-> Absent, objFresh |-> FALSE]

InitDeriver ==
  /\ \E s \in DeriverSpecs, st \in PriorStatuses :
       cr = [exists |-> TRUE, spec |-> s, generation |-> 1, status |-> st]
  /\ \E present \in BOOLEAN, r \in 0..MaxReady :
       /\ objs = [k \in Kinds |->
                    IF k = "deploy" /\ present
                    THEN Mutate(NewObject(k, setDefaults(cr.spec))) ELSE Absent]
       /\ ready = IF present THEN r ELSE 0
  /\ pc = [p \in Procs |-> IF p = SeqProc THEN "statusGet" ELSE "idle"]
  /\ step = [p \in Procs |-> IF p = SeqProc THEN "status" ELSE "none"]
  /\ wc = [p \in Procs |-> IF p = SeqProc THEN FetchedCopy(cr) ELSE NoWC]
  /\ hist = [p \in Procs |-> IF p = SeqProc THEN [NewHist EXCEPT !.fetched = TRUE]
                              ELSE NewHist]
  /\ env = [events |-> 0, stable |-> FALSE, pristine |-> FALSE,
            failed |-> FALSE, base |-> cr.status]

NextDeriver ==
  \/ StatusGet(SeqProc)
  \/ StatusWrite(SeqProc)
  \/ Finish(SeqProc)

SpecDeriver == InitDeriver /\ [][NextDeriver]_vars


\* ------------------------------------------------ the defaulting pass alone
\* setDefaults applied to specs in which every field it looks at is set in
\* some inputs and unset in others.
AccessModes == {"", "ReadWriteOnce"}
FileNames == {"", "app.db"}

\* An API sub-config that is present with the zero port and no metrics part.
ZeroRestPart == [rest |-> "on", port |-> 0, metrics |-> "nil", metricsPort |-> 0]

DefaultingInputs ==
  {[MkSpec(n, sz, ls, rp, ip) EXCEPT !.accessMode = am] :
     n \in FileNames, sz \in Sizes, am \in AccessModes, ls \in {"nil", "on", "off"},
     rp \in RestParts \cup {ZeroRestPart}, ip \in IngressParts}

InitDefaults ==
  /\ \E s \in DefaultingInputs :
       cr = [exists |-> TRUE, spec |-> s, generation |-> 1, status |-> EmptyStatus]
  /\ objs = [k \in Kinds |-> Absent]
  /\ ready = 0
  /\ pc = [p \in Procs |-> "idle"]
  /\ step = [p \in Procs |-> "none"]
  /\ wc = [p \in Procs |-> NoWC]
  /\ hist = [p \in Procs |-> NewHist]
  /\ env = [events |-> 0, stable |-> FALSE, pristine |-> TRUE,
            failed |-> FALSE, base |-> EmptyStatus]

\* r.setDefaults(sqliteDB) on the copy just fetched.
ApplyDefaults ==
  /\ pc[SeqProc] = "idle"
  /\ wc' = [wc EXCEPT ![SeqProc] = FetchedCopy(cr)]
  /\ pc' = [pc EXCEPT ![SeqProc] = "done"]
  /\ UNCHANGED <<cr, objs, ready, step, hist, env>>

NextDefaults == ApplyDefaults

SpecDefaults == InitDefaults /\ [][NextDefaults]_vars

\* ------------------------------------------------- the scheduler's guarantee
\* The scheduler delivers "reconcile this identity" again and again (on every
\* change and on the periodic resync) and lets an invocation run to its
\* return; the store answers every call.  The user may still edit the spec,
\* somebody may create an object under a dependent's name, and the
\* workload's readiness may change at any time.
NoStoreError == env'.events = env.events

Resync == FetchSerial /\ NoStoreError

RunInvocation == (Pipeline(SeqProc) \/ Finish(SeqProc)) /\ NoStoreError

NextLive ==
  \/ Resync
  \/ RunInvocation
  \/ EditSpec
  \/ WorkloadStatus
  \/ \E k \in Kinds : ExternalCreate(k)

SpecLive ==
  /\ Init
  /\ [][NextLive]_vars
  /\ WF_vars(Resync)
  /\ WF_vars(RunInvocation)

\* ------------------------------------------- the replication config builder
\* buildLitestreamConfig on its own, one loop iteration per step.  Strings are
\* strings, fmt.Sprintf is concatenation.  In this specification cr holds
\* the database file name and the replica list, objs the LitestreamDB list
\* built so far and the marshalled document (a sequence of lines), and
\* step[SeqProc] counts the replicas the loop has handled.
MaxReplicas == 2     \* longest replica list

ReplicaTypes == {"s3", "azure", "gcs", "local", "minio"}
ReplicaBuckets == {"", "b1"}
ReplicaPaths == {"nil", "p1", "p2"}        \* "nil": the Path pointer is unset

ReplicaConfigs == [type : ReplicaTypes, bucket : ReplicaBuckets, path : ReplicaPaths]

ReplicaLists == UNION {[1..n -> ReplicaConfigs] : n \in 0..MaxReplicas}

buildReplicaURLUnknownAsFile(replica) ==
  LET path == IF replica.path # "nil" THEN replica.path ELSE ""
  IN  CASE replica.type = "s3"    -> "s3://" \o replica.bucket \o "/" \o path
        [] replica.type = "azure" -> "abs://" \o replica.bucket \o "/" \o path
        [] replica.type = "gcs"   -> "gs://" \o replica.bucket \o "/" \o path
        [] OTHER                  -> "file:///backups/" \o path
buildReplicaURL(replica) ==
  LET path == IF replica.path # "nil" THEN replica.path ELSE ""
  IN  CASE replica.type = "s3"    -> "s3://" \o replica.bucket \o "/" \o path
        [] replica.type = "azure" -> "abs://" \o replica.bucket \o "/" \o path
        [] replica.type = "gcs"   -> "gs://" \o replica.bucket \o "/" \o path
        [] replica.type = "local" -> "file:///backups/" \o path
        [] OTHER                  -> "s3://" \o replica.bucket \o "/" \o path

\* The LitestreamDB the loop body appends for one replica.
LitestreamDB(name, replica) ==
  [path |-> "/var/lib/sqlite/" \o name, replica |-> [url |-> buildReplicaURL(replica)]]

\* yaml.Marshal of LitestreamConfig{DBs: dbs}: the lines of the document, in
\* the layout of yaml.v3 (scalars that need no quoting are written plain).
MarshalDB(db) ==
  <<"    - path: " \o db.path, "      replica:", "        url: " \o db.replica.url>>

RECURSIVE MarshalDBs(_)
MarshalDBs(dbs) ==
  IF dbs = <<>> THEN <<>> ELSE MarshalDB(Head(dbs)) \o MarshalDBs(Tail(dbs))

MarshalConfig(dbs) ==
  IF dbs = <<>> THEN <<"dbs: []">> ELSE <<"dbs:">> \o MarshalDBs(dbs)

InitReplicas ==
  /\ \E rs \in ReplicaLists : cr = [name |-> "database.db", replicas |-> rs]
  /\ objs = [dbs |-> <<>>, doc |-> <<>>]
  /\ ready = 0
  /\ pc = [p \in Procs |-> IF p = SeqProc THEN "loop" ELSE "idle"]
  /\ step = [p \in Procs |-> 0]
  /\ wc = [p \in Procs |-> NoWC]
  /\ hist = [p \in Procs |-> NewHist]
  /\ env = [events |-> 0, stable |-> FALSE, pristine |-> TRUE,
            failed |-> FALSE, base |-> EmptyStatus]

\* One iteration of "for _, replica := range sqliteDB.Spec.Litestream.Replicas".
AppendDB ==
  /\ pc[SeqProc] = "loop"
  /\ step[SeqProc] < Len(cr.replicas)
  /\ objs' = [objs EXCEPT
                !.dbs = Append(@, LitestreamDB(cr.name, cr.replicas[step[SeqProc] + 1]))]
  /\ step' = [step EXCEPT ![SeqProc] = @ + 1]
  /\ UNCHANGED <<cr, ready, pc, wc, hist, env>>

\* After the loop: yaml.Marshal and return.
MarshalStep ==
  /\ pc[SeqProc] = "loop"
  /\ step[SeqProc] = Len(cr.replicas)
  /\ objs' = [objs EXCEPT !.doc = MarshalConfig(objs.dbs)]
  /\ pc' = [pc EXCEPT ![SeqProc] = "done"]
  /\ UNCHANGED <<cr, ready, step, wc, hist, env>>

NextReplicas == AppendDB \/ MarshalStep

SpecReplicas == InitReplicas /\ [][NextReplicas]_vars

\* ----------------------------------------------------- the init container
\* The script buildInitContainers puts in Args[0] of the init container,
\* run by /bin/sh -c in a pod whose db-storage volume outlives the pod.
\* Text is a sequence of tokens, fmt.Sprintf is concatenation of the template
\* with the database name (a sequence of characters), and the shell splits a
\* command line into words at blanks.  In this specification cr holds the
\* name, the init-script reference and what the mounted /init/init.sql is;
\* objs the files of the volume and the number of times the database file was
\* created; pc[SeqProc] the command the script is at; step[SeqProc] the
\* number of times the init step was started again; ready the ready count.
MaxRestarts == 2     \* restarts of the init step (container or pod)

DataDir == <<"/var/lib/sqlite/">>

InitNames == {<<"d", "b">>, <<"m", " ", "d">>}

\* "nil": no init-script reference.  With a reference, /init/init.sql is a
\* script that runs clean ("ok"), one with a failing statement ("bad"), or is
\* not among the keys of the referenced document ("missing").
InitInputs ==
  {[name |-> n, initScript |-> "nil", sql |-> "none"] : n \in InitNames}
    \cup [name : InitNames, initScript : {"cm"}, sql : {"ok", "bad", "missing"}]

RECURSIVE SplitWords(_, _, _)
SplitWords(s, cur, acc) ==
  IF s = <<>> THEN (IF cur = <<>> THEN acc ELSE Append(acc, cur))
  ELSE IF Head(s) = " "
       THEN SplitWords(Tail(s), <<>>, IF cur = <<>> THEN acc ELSE Append(acc, cur))
       ELSE SplitWords(Tail(s), Append(cur, Head(s)), acc)

\* The words the shell makes of a command line.
Fields(line) == SplitWords(line, <<>>, <<>>)

\* The script of buildSqliteInitScript for a spec with an init-script
\* reference: the guard, the command of its then-branch, the last command.
buildSqliteInitScript(db) ==
  [cond |-> <<"[", " ", "!", " ", "-f", " ">> \o DataDir \o db.name \o <<" ", "]">>,
   then |-> <<"sqlite3", " ">> \o DataDir \o db.name \o <<" ", "<", " ", "/init/init.sql">>,
   last |-> <<"tail", " ", "-f", " ", "/dev/null">>]

\* Args[0] of the init container: the literal script, replaced by
\* buildSqliteInitScript when the spec has an init-script reference.
buildInitContainers(db) ==
  IF db.initScript # "nil"
    THEN buildSqliteInitScript(db)
    ELSE [cond |-> <<"[", " ", "!", " ", "-f", " ">> \o DataDir \o db.name \o <<" ", "]">>,
          then |-> <<"sqlite3", " ">> \o DataDir \o db.name \o <<" ", "SELECT 1;">>,
          last |-> <<>>]

DbFile(db) == DataDir \o db.name

IsFile(files, path) == path \in DOMAIN files

\* Exit status of the test command "[ ... ]": with the three arguments
\* ! -f FILE it is 0 when FILE is not a regular file and 1 when it is; with
\* any other argument list the shell reports an error, status 2.
TestStatus(line, files) ==
  LET words == Fields(line)
      args == SubSeq(words, 2, Len(words) - 1)
  IN  IF Len(args) = 3 /\ args[1] = <<"!">> /\ args[2] = <<"-f">>
        THEN (IF IsFile(files, args[3]) THEN 1 ELSE 0)
        ELSE 2

\* What sqlite3 FILE does: it opens FILE, creating it empty when it is
\* absent, and runs the statements of its argument or of its standard
\* input.  A redirection from a file that does not exist fails in the shell
\* before sqlite3 starts.
SqliteRun(line, files, sql) ==
  LET words == Fields(line)
      file == words[2]
      stdin == \E i \in 1..Len(words) : words[i] = <<"<">>
      opened == IF IsFile(files, file) THEN files ELSE (file :> "empty") @@ files
  IN  IF stdin /\ sql = "missing" THEN [status |-> 1, files |-> files, file |-> file, made |-> FALSE]
      ELSE IF stdin /\ sql = "bad"
        THEN [status |-> 1, files |-> [opened EXCEPT ![file] = "partial"],
              file |-> file, made |-> ~IsFile(files, file)]
      ELSE IF stdin
        THEN [status |-> 0, files |-> [opened EXCEPT ![file] = "schema"],
              file |-> file, made |-> ~IsFile(files, file)]
      ELSE [status |-> 0, files |-> opened, file |-> file, made |-> ~IsFile(files, file)]

InitInit ==
  /\ cr \in InitInputs
  /\ \E had \in BOOLEAN :
       objs = [files |-> IF had THEN (DbFile(cr) :> "data") ELSE <<>>,
               had |-> had, created |-> 0, script |-> buildInitContainers(cr)]
  /\ ready = 0
  /\ pc = [p \in Procs |-> IF p = SeqProc THEN "mkdir" ELSE "idle"]
  /\ step = [p \in Procs |-> 0]
  /\ wc = [p \in Procs |-> NoWC]
  /\ hist = [p \in Procs |-> NewHist]
  /\ env = [events |-> 0, stable |-> FALSE, pristine |-> TRUE,
            failed |-> FALSE, base |-> EmptyStatus]

\* set -e; mkdir -p /var/lib/sqlite
Mkdir ==
  /\ pc[SeqProc] = "mkdir"
  /\ pc' = [pc EXCEPT ![SeqProc] = "test"]
  /\ UNCHANGED <<cr, objs, ready, step, wc, hist, env>>

\* if [ ! -f /var/lib/sqlite/NAME ]; then ... : the then-branch is taken
\* on status 0, and a failing condition of an if does not end a set -e script.
TestFile ==
  /\ pc[SeqProc] = "test"
  /\ pc' = [pc EXCEPT ![SeqProc] =
              IF TestStatus(objs.script.cond, objs.files) = 0 THEN "create" ELSE "last"]
  /\ UNCHANGED <<cr, objs, ready, step, wc, hist, env>>

\* The sqlite3 command of the then-branch; under set -e a failure ends the
\* script with that status.
RunSqlite ==
  /\ pc[SeqProc] = "create"
  /\ LET r == SqliteRun(objs.script.then, objs.files, cr.sql)
     IN  /\ objs' = [objs EXCEPT
                       !.files = r.files,
                       !.created = IF r.made /\ r.file = DbFile(cr) THEN @ + 1 ELSE @]
         /\ pc' = [pc EXCEPT ![SeqProc] = IF r.status = 0 THEN "last" ELSE "exited1"]
  /\ UNCHANGED <<cr, ready, step, wc, hist, env>>

\* The end of the script: it returns, or its last command is tail -f
\* /dev/null, which follows a file nothing is ever written to.
LastCommand ==
  /\ pc[SeqProc] = "last"
  /\ pc' = [pc EXCEPT ![SeqProc] =
              IF objs.script.last = <<>> THEN "exited0" ELSE "follow"]
  /\ UNCHANGED <<cr, objs, ready, step, wc, hist, env>>

\* A failed init container is started again.
RestartInit ==
  /\ pc[SeqProc] = "exited1"
  /\ step[SeqProc] < MaxRestarts
  /\ pc' = [pc EXCEPT ![SeqProc] = "mkdir"]
  /\ step' = [step EXCEPT ![SeqProc] = @ + 1]
  /\ UNCHANGED <<cr, objs, ready, wc, hist, env>>

\* The containers of the pod start once its init container has returned 0.
StartMain ==
  /\ pc[SeqProc] = "exited0"
  /\ pc' = [pc EXCEPT ![SeqProc] = "main"]
  /\ UNCHANGED <<cr, objs, ready, step, wc, hist, env>>

BecomeReady ==
  /\ pc[SeqProc] = "main"
  /\ ready = 0
  /\ ready' = 1
  /\ UNCHANGED <<cr, objs, pc, step, wc, hist, env>>

\* The pod is replaced; the volume and its files stay.
PodReplaced ==
  /\ pc[SeqProc] \in {"main", "follow"}
  /\ step[SeqProc] < MaxRestarts
  /\ pc' = [pc EXCEPT ![SeqProc] = "mkdir"]
  /\ step' = [step EXCEPT ![SeqProc] = @ + 1]
  /\ ready' = 0
  /\ UNCHANGED <<cr, objs, wc, hist, env>>

RunPod ==
  \/ Mkdir
  \/ TestFile
  \/ RunSqlite
  \/ LastCommand
  \/ RestartInit
  \/ StartMain
  \/ BecomeReady

NextInit == RunPod \/ PodReplaced

SpecInit == InitInit /\ [][NextInit]_vars

\* The shell and the kubelet keep running what they can run.
SpecInitLive == InitInit /\ [][NextInit]_vars /\ WF_vars(RunPod)

\* ------------------------------------------------------ the pod template
\* The three builders reconcileDeployment puts into the pod template, on
\* their own.  A spec here is a defaulted spec with two more fields, the
\* auth secret and the init-script reference ("nil": pointer unset); the
\* specs of the reconcile specifications carry neither, which the builders
\* read as unset.  In this specification cr holds the spec, objs the
\* template built so far and pc[SeqProc] the builder that runs next.
AuthSecretOf(s) == IF "authSecret" \in DOMAIN s THEN s.authSecret ELSE "nil"

InitScriptOf(s) == IF "initScript" \in DOMAIN s THEN s.initScript ELSE "nil"

Mount(n, path) == [name |-> n, mountPath |-> path]

buildSqliteRestArgs(s) ==
  <<"serve", "--db-dsn", "/var/lib/sqlite/" \o s.name, "--http-addr", ":" \o ToString(s.port)>>
    \o (IF MetricsEnabled(s) THEN <<"--metrics-addr", ":" \o ToString(s.metricsPort)>> ELSE <<>>)
    \o (IF AuthSecretOf(s) # "nil" THEN <<"--auth-token-file", "/etc/auth/token">> ELSE <<>>)

\* The volume mounts of the init container.
InitContainerMounts(s) ==
  <<Mount("db-storage", "/var/lib/sqlite")>>
    \o (IF InitScriptOf(s) # "nil" THEN <<Mount("init-script", "/init")>> ELSE <<>>)

buildContainers(s) ==
  (IF LitestreamEnabled(s)
     THEN <<[name |-> "litestream",
             args |-> <<"replicate", "-config", "/etc/litestream/litestream.yml">>,
             mounts |-> <<Mount("db-storage", "/var/lib/sqlite"),
                          Mount("litestream-config", "/etc/litestream")>>]>>
     ELSE <<>>)
    \o (IF RestEnabled(s)
          THEN <<[name |-> "sqlite-rest",
                  args |-> buildSqliteRestArgs(s),
                  mounts |-> <<Mount("db-storage", "/var/lib/sqlite")>>]>>
          ELSE <<>>)

\* The volumes, each with the kind and name of the object it is taken from.
buildVolumes(s) ==
  <<[name |-> "db-storage", kind |-> "claim", source |-> "N-db-storage"]>>
    \o (IF InitScriptOf(s) # "nil"
          THEN <<[name |-> "init-script", kind |-> "config", source |-> InitScriptOf(s)]>>
          ELSE <<>>)
    \o (IF LitestreamEnabled(s)
          THEN <<[name |-> "litestream-config", kind |-> "config",
                  source |-> "N-litestream-config"]>>
          ELSE <<>>)
    \o (IF RestEnabled(s)
          THEN <<[name |-> "sqlite-rest-config", kind |-> "config",
                  source |-> "N-sqlite-rest-config"]>>
               \o (IF AuthSecretOf(s) # "nil"
                     THEN <<[name |-> "sqlite-rest-auth", kind |-> "secret",
                             source |-> AuthSecretOf(s)]>>
                     ELSE <<>>)
          ELSE <<>>)

AuthSecrets == {"nil", "api-token"}
InitScripts == {"nil", "init-script-cm"}

PodInputs ==
  {setDefaults(s) @@ [authSecret |-> a, initScript |-> i] :
     s \in RawSpecs, a \in AuthSecrets, i \in InitScripts}

InitPod ==
  /\ cr \in PodInputs
  /\ objs = [initMounts |-> <<>>, containers |-> <<>>, volumes |-> <<>>]
  /\ ready = 0
  /\ pc = [p \in Procs |-> IF p = SeqProc THEN "initContainers" ELSE "idle"]
  /\ step = [p \in Procs |-> 0]
  /\ wc = [p \in Procs |-> NoWC]
  /\ hist = [p \in Procs |-> NewHist]
  /\ env = [events |-> 0, stable |-> FALSE, pristine |-> TRUE,
            failed |-> FALSE, base |-> EmptyStatus]

\* InitContainers: r.buildInitContainers(sqliteDB)
PodInitContainers ==
  /\ pc[SeqProc] = "initContainers"
  /\ objs' = [objs EXCEPT !.initMounts = InitContainerMounts(cr)]
  /\ pc' = [pc EXCEPT ![SeqProc] = "containers"]
  /\ UNCHANGED <<cr, ready, step, wc, hist, env>>

\* Containers: r.buildContainers(sqliteDB)
PodContainers ==
  /\ pc[SeqProc] = "containers"
  /\ objs' = [objs EXCEPT !.containers = buildContainers(cr)]
  /\ pc' = [pc EXCEPT ![SeqProc] = "volumes"]
  /\ UNCHANGED <<cr, ready, step, wc, hist, env>>

\* Volumes: r.buildVolumes(sqliteDB)
PodVolumes ==
  /\ pc[SeqProc] = "volumes"
  /\ objs' = [objs EXCEPT !.volumes = buildVolumes(cr)]
  /\ pc' = [pc EXCEPT ![SeqProc] = "done"]
  /\ UNCHANGED <<cr, ready, step, wc, hist, env>>

NextPod == PodInitContainers \/ PodContainers \/ PodVolumes

SpecPod == InitPod /\ [][NextPod]_vars

\* ------------------------------------------- two identities in one namespace
\* Names are sequences of characters, so that fmt.Sprintf("%s-suffix", name)
\* is concatenation and two derived names can be compared.  In this
\* specification cr holds one spec object per invocation (each invocation
\* reconciles its own identity), objs is keyed by <<object kind, name>>, and
\* hist[p] records the keys p read and wrote.
Suffix(k) ==
  CASE k = "pvc"     -> <<"-", "d", "b", "-", "s", "t", "o", "r", "a", "g", "e">>
    [] k = "lscfg"   -> <<"-", "l", "i", "t", "e", "s", "t", "r", "e", "a", "m",
                          "-", "c", "o", "n", "f", "i", "g">>
    [] k = "restcfg" -> <<"-", "s", "q", "l", "i", "t", "e", "-", "r", "e", "s", "t",
                          "-", "c", "o", "n", "f", "i", "g">>
    [] k = "deploy"  -> <<>>
    [] k = "svc"     -> <<"-", "s", "e", "r", "v", "i", "c", "e">>
    [] k = "ing"     -> <<"-", "i", "n", "g", "r", "e", "s", "s">>

ObjectKind(k) ==
  CASE k = "pvc"     -> "PersistentVolumeClaim"
    [] k = "lscfg"   -> "ConfigMap"
    [] k = "restcfg" -> "ConfigMap"
    [] k = "deploy"  -> "Deployment"
    [] k = "svc"     -> "Service"
    [] k = "ing"     -> "Ingress"

ObjectNameWithoutIdentity(k, n) == Suffix(k)
ObjectName(k, n) == n \o Suffix(k)

ObjectKey(k, n) == <<ObjectKind(k), ObjectName(k, n)>>

Letters == {"a", "b"}

\* Plain names, and names that look like another identity's derived names.
IdentityNames ==
  UNION {[1..n -> Letters] : n \in 1..MaxNameLen}
  \cup {<<"a">> \o Suffix(k) : k \in Kinds \ {"deploy"}}

TwoSpecs ==
  {s \in RawSpecs :
     /\ s.size = "" /\ s.litestream = "on"
     /\ \/ s.rest = "nil" /\ s.ingress = "nil"
        \/ s.rest = "on" /\ s.port = DefaultPort /\ s.ingress = "on" /\ s.host # ""}

TwoKeys == {ObjectKey(k, cr[p].name) : k \in Kinds, p \in Procs}

TwoHist == [read |-> {}, wrote |-> {}, result |-> "none"]

InitTwo ==
  /\ \E na, nb \in IdentityNames, sa, sb \in TwoSpecs :
       /\ na # nb
       /\ cr = [p \in Procs |->
                  [exists |-> TRUE, name |-> IF p = SeqProc THEN na ELSE nb,
                   spec |-> IF p = SeqProc THEN sa ELSE sb,
                   generation |-> 1, status |-> EmptyStatus]]
  /\ objs = [key \in TwoKeys |-> Absent]
  /\ ready = 0
  /\ pc = [p \in Procs |-> "idle"]
  /\ step = [p \in Procs |-> "none"]
  /\ wc = [p \in Procs |-> NoWC]
  /\ hist = [p \in Procs |-> TwoHist]
  /\ env = [events |-> 0, stable |-> FALSE, pristine |-> TRUE,
            failed |-> FALSE, base |-> EmptyStatus]

\* Invocation p moves on; h is its record after the step.
TwoTake(p, o, h) ==
  /\ pc' = [pc EXCEPT ![p] = o.pc]
  /\ step' = [step EXCEPT ![p] = o.step]
  /\ hist' = [hist EXCEPT ![p] = h]
  /\ UNCHANGED <<ready, env>>

TwoDone(res) == [pc |-> "done", step |-> "none", res |-> res]

\* r.Get of the own spec object and setDefaults.
TwoFetch(p) ==
  /\ pc[p] = "idle"
  /\ wc' = [wc EXCEPT ![p] = FetchedCopy(cr[p])]
  /\ TwoTake(p, [pc |-> "obsgen", step |-> "none"], hist[p])
  /\ UNCHANGED <<cr, objs>>

\* The observedGeneration write on the own spec object.
TwoObsGen(p) ==
  /\ pc[p] = "obsgen"
  /\ LET st == [wc[p].status EXCEPT !.observedGeneration = wc[p].generation]
     IN  /\ cr' = [cr EXCEPT ![p].status = st]
         /\ wc' = [wc EXCEPT ![p].status = st]
  /\ TwoTake(p, Goto("pvc", 0), hist[p])
  /\ UNCHANGED objs

\* The object step k of identity c hands to CreateOrUpdate, owner link set.
TwoObject(k, c) ==
  [NewObject(k, setDefaults(c.spec)) EXCEPT !.owner = c.name]

\* A reconcileX step up to the Get of CreateOrUpdate.  An object found under
\* the name with another controller owner makes SetControllerReference fail.
TwoGet(p) ==
  /\ pc[p] = "get"
  /\ LET k   == step[p]
         key == ObjectKey(k, cr[p].name)
         h   == [hist[p] EXCEPT !.read = @ \cup {key}]
     IN  IF ~objs[key].exists
         THEN TwoTake(p, [pc |-> "create", step |-> k], h)
         ELSE IF objs[key].owner = cr[p].name
         THEN TwoTake(p, Advance(wc[p].spec, k, 0), h)
         ELSE TwoTake(p, TwoDone("err"), [h EXCEPT !.result = "err"])
  /\ UNCHANGED <<cr, objs, wc>>

\* The Create of CreateOrUpdate; it fails if the name has been taken.
TwoCreate(p) ==
  /\ pc[p] = "create"
  /\ LET k   == step[p]
         key == ObjectKey(k, cr[p].name)
     IN  IF objs[key].exists
         THEN /\ TwoTake(p, TwoDone("err"), [hist[p] EXCEPT !.result = "err"])
              /\ UNCHANGED objs
         ELSE /\ objs' = [objs EXCEPT ![key] = TwoObject(k, cr[p])]
              /\ TwoTake(p, Advance(wc[p].spec, k, 0),
                         [hist[p] EXCEPT !.wrote = @ \cup {key}])
  /\ UNCHANGED <<cr, wc>>

\* updateStatus: the lookup of the Deployment named after the identity.
TwoStatusGet(p) ==
  /\ pc[p] = "statusGet"
  /\ LET key    == ObjectKey("deploy", cr[p].name)
         lookup == IF objs[key].exists THEN FoundLookup(0) ELSE NotFoundLookup
     IN  /\ wc' = [wc EXCEPT ![p].status = DeriveStatus(@, wc[p].spec, lookup)]
         /\ TwoTake(p, [pc |-> "statusWrite", step |-> "status"],
                    [hist[p] EXCEPT !.read = @ \cup {key}])
  /\ UNCHANGED <<cr, objs>>

TwoStatusWrite(p) ==
  /\ pc[p] = "statusWrite"
  /\ cr' = [cr EXCEPT ![p].status = wc[p].status]
  /\ TwoTake(p, TwoDone("ok"), [hist[p] EXCEPT !.result = "ok"])
  /\ UNCHANGED <<objs, wc>>

NextTwo ==
  \E p \in Procs :
    \/ TwoFetch(p)
    \/ TwoObsGen(p)
    \/ TwoGet(p)
    \/ TwoCreate(p)
    \/ TwoStatusGet(p)
    \/ TwoStatusWrite(p)

SpecTwo == InitTwo /\ [][NextTwo]_vars

\* The store after the steps of Reconcile from position i on ran alone for
\* identity c.
RECURSIVE RunFrom(_, _, _)
RunFrom(store, c, i) ==
  IF i > Cardinality(Kinds) THEN store
  ELSE LET k   == StepOrder[i]
           key == ObjectKey(k, c.name)
       IN  IF ~StepEnabled(setDefaults(c.spec), k) THEN RunFrom(store, c, i + 1)
           ELSE IF ~store[key].exists
           THEN RunFrom([store EXCEPT ![key] = TwoObject(k, c)], c, i + 1)
           ELSE IF store[key].owner = c.name THEN RunFrom(store, c, i + 1)
           ELSE store

\* The status one Reconcile of c leaves when its workload reports no replica.
StatusAlone(c) ==
  DeriveStatus([EmptyStatus EXCEPT !.observedGeneration = c.generation],
               setDefaults(c.spec), FoundLookup(0))

\* -------------------------------------------------------------- properties
EnabledSteps(s) == SelectSeq(StepOrder, LAMBDA k : StepEnabled(s, k))

IsPrefix(a, b) == Len(a) <= Len(b) /\ \A i \in 1..Len(a) : a[i] = b[i]

\* The dependents the reconciler created, of the steps the current spec
\* enables, equal what the builders give for the current defaulted spec.
Converged ==
  \A k \in Kinds :
    (objs[k].exists /\ objs[k].by = "ctrl" /\ StepEnabled(setDefaults(cr.spec), k))
    => objs[k].content = Desired(k, setDefaults(cr.spec))

\* C1: a reconcile that starts after a successful one, with the spec and the
\* store unchanged since, creates and updates no dependent object.
IdempotentReconcile ==
  \A p \in Procs : hist[p].quiet => hist[p].wrote = {}

IdempotentWitness ==
  /\ pc[SeqProc] = "done"
  /\ hist[SeqProc].quiet
  /\ hist[SeqProc].result = "ok"
  /\ hist[SeqProc].ran = <<"pvc", "lscfg", "restcfg", "deploy", "svc", "ing", "status">>
  /\ \A k \in Kinds : objs[k].exists

\* C2: once the spec is left alone and reconciles keep succeeding, every
\* existing dependent equals the builder output for the current spec.  A
\* reconcile that started from the state a successful reconcile left, ran
\* undisturbed and succeeded has written nothing, so the store is at the
\* fixpoint of the reconciler: what differs then differs for ever.
ConvergedAtFixpoint ==
  (/\ env.stable
   /\ cr.exists
   /\ pc[SeqProc] = "done"
   /\ hist[SeqProc].quiet
   /\ hist[SeqProc].result = "ok") => Converged

\* C3 as stated: an invocation that fetched a spec with network exposure
\* enabled and no hostname returns an error and leaves no ingress of the
\* spec object behind.
NoIngressAfterHostError ==
  \A p \in Procs :
    (/\ pc[p] = "done"
     /\ hist[p].fetched
     /\ IngressEnabled(wc[p].spec)
     /\ HostMissing(wc[p].spec))
    => /\ hist[p].result = "err"
       /\ ~(objs["ing"].exists /\ objs["ing"].owner = Owner)

\* C3 amended: such an invocation returns an error and neither creates nor
\* updates an ingress object.
NoIngressWriteOnHostError ==
  \A p \in Procs :
    (/\ hist[p].fetched
     /\ IngressEnabled(wc[p].spec)
     /\ wc[p].spec.host = "")
    => /\ "ing" \notin hist[p].wrote
       /\ pc[p] = "done" => hist[p].result = "err"

HostErrorWitness ==
  /\ pc[SeqProc] = "done"
  /\ hist[SeqProc].failStep = "ing"
  /\ hist[SeqProc].result = "err"
  /\ hist[SeqProc].clean
  /\ IngressEnabled(wc[SeqProc].spec)
  /\ wc[SeqProc].spec.host = ""
  /\ ~objs["ing"].exists
  /\ objs["deploy"].exists

\* C4: every dependent the reconciler created carries the owner link, from
\* the state in which it first exists.
CreatedObjectsOwned ==
  \A k \in Kinds :
    (objs[k].exists /\ objs[k].by = "ctrl") => objs[k].owner = Owner

AllCreatedWitness ==
  \A k \in Kinds :
    objs[k].exists /\ objs[k].by = "ctrl" /\ objs[k].owner = Owner

\* C5: the steps an invocation has run are a prefix of the enabled steps in
\* pipeline order; after an error in a step the invocation has returned that
\* error, has written nothing that belongs to a later step, and has derived
\* no status unless the failing step is the status step itself.
ShortCircuit ==
  \A p \in Procs :
    LET h == hist[p]
    IN  /\ h.fetched => IsPrefix(h.ran, EnabledSteps(wc[p].spec))
        /\ (h.result = "ok" /\ h.fetched) => h.ran = EnabledSteps(wc[p].spec)
        /\ h.failStep # "none" =>
             /\ pc[p] = "done"
             /\ h.result = "err"
             /\ h.failStep \in {"fetch", "obsgen"} => (h.ran = <<>> /\ h.wrote = {})
             /\ h.failStep \notin {"fetch", "obsgen"} =>
                  /\ h.ran # <<>>
                  /\ h.ran[Len(h.ran)] = h.failStep
                  /\ \A k \in h.wrote : StepIndex(k) <= StepIndex(h.failStep)
             /\ h.failStep # "status" => (h.seen = NoLookup /\ h.statusWrites <= 1)

ShortCircuitWitness ==
  /\ hist[SeqProc].failStep = "deploy"
  /\ hist[SeqProc].result = "err"
  /\ hist[SeqProc].wrote = {"pvc", "lscfg", "restcfg"}
  /\ RestEnabled(wc[SeqProc].spec)
  /\ IngressEnabled(wc[SeqProc].spec)
  /\ ~objs["deploy"].exists
  /\ ~objs["svc"].exists

\* C6: when the first fetch finds no spec object the invocation returns
\* success and has written nothing, neither a dependent nor a status.
NotFoundIsNoop ==
  \A p \in Procs :
    hist[p].notFound =>
      /\ pc[p] = "done"
      /\ hist[p].result = "ok"
      /\ hist[p].ran = <<>>
      /\ hist[p].wrote = {}
      /\ hist[p].statusWrites = 0

NotFoundWitness ==
  /\ hist[SeqProc].notFound
  /\ hist[SeqProc].result = "ok"
  /\ ~cr.exists

\* C7: once the observedGeneration write of an invocation succeeded, the
\* stored observedGeneration is that generation, whatever a later step of the
\* invocation does.
ObservedGenerationSurvives ==
  \A p \in Procs :
    (hist[p].obsWrote # 0 /\ cr.exists)
    => cr.status.observedGeneration = hist[p].obsWrote

ObservedGenerationWitness ==
  /\ hist[SeqProc].obsWrote # 0
  /\ hist[SeqProc].result = "err"
  /\ hist[SeqProc].failStep \in {"pvc", "lscfg", "restcfg", "deploy", "svc", "ing", "status"}
  /\ cr.exists
  /\ cr.status.observedGeneration = cr.generation
  /\ cr.status.phase = ""

\* C8: while the spec object exists, the stored observedGeneration never
\* exceeds the generation of the spec and no step lowers it, also when
\* invocations of the identity overlap.
ObservedGenerationMonotonic ==
  /\ [](cr.exists => cr.status.observedGeneration <= cr.generation)
  /\ [][(cr.exists /\ cr'.exists) =>
          cr'.status.observedGeneration >= cr.status.observedGeneration]_vars

\* A write made from a stale copy was refused after a newer generation had
\* been recorded.
StaleWriteRefusedWitness ==
  \E p \in Procs :
    /\ hist[p].result = "err"
    /\ hist[p].failStep \in {"obsgen", "status"}
    /\ hist[p].clean = FALSE
    /\ cr.exists
    /\ wc[p].generation < cr.generation
    /\ cr.status.observedGeneration = cr.generation

\* C9: when an invocation for an identity whose spec was never edited and
\* whose dependents were all made by the controller returns success, the
\* dependents present are exactly those of the enabled steps: storage claim
\* and workload, replication config iff replication is enabled, API config
\* and service iff the API is enabled, ingress iff exposure is enabled; and
\* an undisturbed invocation with the API enabled and exposure off succeeds.
FreshReconcileObjects ==
  \A p \in Procs :
    /\ (/\ pc[p] = "done" /\ hist[p].result = "ok" /\ hist[p].fetched
        /\ (hist[p].first \/ cr.generation = 1)
        /\ \A k \in Kinds : objs[k].exists => objs[k].by = "ctrl")
       => /\ objs["pvc"].exists /\ objs["deploy"].exists
          /\ objs["lscfg"].exists <=> LitestreamEnabled(wc[p].spec)
          /\ objs["restcfg"].exists <=> RestEnabled(wc[p].spec)
          /\ objs["svc"].exists <=> RestEnabled(wc[p].spec)
          /\ objs["ing"].exists <=> IngressEnabled(wc[p].spec)
    /\ (/\ pc[p] = "done" /\ hist[p].fetched /\ hist[p].clean
        /\ RestEnabled(wc[p].spec) /\ ~IngressEnabled(wc[p].spec))
       => hist[p].result = "ok"

FreshReconcileWitness ==
  /\ pc[SeqProc] = "done"
  /\ hist[SeqProc].first
  /\ hist[SeqProc].result = "ok"
  /\ hist[SeqProc].fetched
  /\ RestEnabled(wc[SeqProc].spec)
  /\ ~IngressEnabled(wc[SeqProc].spec)
  /\ LitestreamEnabled(wc[SeqProc].spec)
  /\ objs["svc"].exists /\ objs["restcfg"].exists /\ objs["lscfg"].exists
  /\ objs["pvc"].exists /\ objs["deploy"].exists
  /\ ~objs["ing"].exists

\* C10: an invocation whose status deriver found the workload with r > 0
\* ready replicas and whose status write succeeded leaves phase Running and
\* replicas r in the stored status; with the API enabled the API endpoint
\* is set, and the metrics endpoint is set iff metrics is enabled.
RunningStatusWritten ==
  \A p \in Procs :
    (/\ pc[p] = "done" /\ hist[p].result = "ok" /\ hist[p].fetched
     /\ hist[p].seen.kind = "found" /\ hist[p].seen.ready > 0)
    => /\ cr.exists
       /\ cr.status.phase = "Running"
       /\ cr.status.replicas = hist[p].seen.ready
       /\ RestEnabled(wc[p].spec)
          => /\ cr.status.rest = wc[p].spec.port
             /\ cr.status.rest # 0
             /\ (cr.status.metrics # 0) <=> MetricsEnabled(wc[p].spec)

RunningStatusWitness ==
  /\ pc[SeqProc] = "done"
  /\ hist[SeqProc].result = "ok"
  /\ hist[SeqProc].seen.kind = "found"
  /\ hist[SeqProc].seen.ready > 0
  /\ cr.status.phase = "Running"
  /\ cr.status.replicas = hist[SeqProc].seen.ready
  /\ RestEnabled(wc[SeqProc].spec)
  /\ MetricsEnabled(wc[SeqProc].spec)
  /\ cr.status.rest = wc[SeqProc].spec.port
  /\ cr.status.metrics # 0

\* C11: the status the deriver produces when the workload is not found has
\* phase Pending and the not-found message; when the workload is found with
\* no ready replica it has phase Pending and the starting message, and that
\* is what a successful status write stores.
PendingStatusDerived ==
  \A p \in Procs :
    /\ (pc[p] = "statusWrite" /\ hist[p].seen.kind = "notfound")
       => /\ wc[p].status.phase = "Pending"
          /\ wc[p].status.message = "Deployment not found"
    /\ (pc[p] = "statusWrite" /\ hist[p].seen.kind = "found" /\ hist[p].seen.ready = 0)
       => /\ wc[p].status.phase = "Pending"
          /\ wc[p].status.message = "Deployment is starting"
    /\ (/\ pc[p] = "done" /\ hist[p].result = "ok" /\ hist[p].seen.kind = "found"
        /\ hist[p].seen.ready = 0)
       => /\ cr.status.phase = "Pending"
          /\ cr.status.message = "Deployment is starting"

PendingNotFoundWitness ==
  /\ pc[SeqProc] = "statusWrite"
  /\ hist[SeqProc].seen.kind = "notfound"
  /\ ~RestEnabled(wc[SeqProc].spec)
  /\ ~objs["deploy"].exists
  /\ wc[SeqProc].status.phase = "Pending"
  /\ wc[SeqProc].status.message = "Deployment not found"

\* C12: a Ready condition in the stored status is True with reason
\* ReconciliationSucceeded when the stored phase is Running, and otherwise
\* False with reason ReconciliationInProgress; its message is the stored
\* status message.
ReadyMirrorsPhase ==
  cr.exists =>
    \A i \in 1..Len(cr.status.conditions) :
      LET c == cr.status.conditions[i]
      IN  c.type = "Ready" =>
            /\ c.message = cr.status.message
            /\ IF cr.status.phase = "Running"
               THEN c.status = "True" /\ c.reason = "ReconciliationSucceeded"
               ELSE c.status = "False" /\ c.reason = "ReconciliationInProgress"

\* A status that was Running and has been rewritten as Pending.
ReadyTurnedFalseWitness ==
  /\ cr.exists
  /\ cr.status.phase = "Pending"
  /\ cr.status.replicas > 0
  /\ Len(cr.status.conditions) = 1
  /\ cr.status.conditions[1].type = "Ready"
  /\ cr.status.conditions[1].status = "False"
  /\ cr.status.conditions[1].message = "Deployment is starting"

\* C13: the status deriver leaves exactly one Ready condition: it replaces
\* an existing one in place, appends only when there is none, and keeps the
\* conditions of every other type in value and position; the list a
\* successful status write stores holds one Ready condition.
UpsertKeepsOthers ==
  /\ pc[SeqProc] = "statusWrite" =>
       LET old == cr.status.conditions
           new == wc[SeqProc].status.conditions
       IN  /\ ReadyCount(new) = 1
           /\ IF ReadyCount(old) > 0
              THEN /\ Len(new) = Len(old)
                   /\ \A i \in 1..Len(old) :
                        IF old[i].type = "Ready" THEN new[i].type = "Ready"
                        ELSE new[i] = old[i]
              ELSE /\ Len(new) = Len(old) + 1
                   /\ new[Len(new)].type = "Ready"
                   /\ \A i \in 1..Len(old) : new[i] = old[i]
  /\ (pc[SeqProc] = "done" /\ hist[SeqProc].result = "ok")
       => ReadyCount(cr.status.conditions) = 1

\* A Ready condition standing between two conditions of another type has
\* been replaced where it stood.
UpsertInPlaceWitness ==
  /\ pc[SeqProc] = "statusWrite"
  /\ Len(cr.status.conditions) = 3
  /\ cr.status.conditions[2].type = "Ready"
  /\ cr.status.conditions[2].status = "True"
  /\ Len(wc[SeqProc].status.conditions) = 3
  /\ wc[SeqProc].status.conditions[2].type = "Ready"
  /\ wc[SeqProc].status.conditions[2].status = "False"
  /\ wc[SeqProc].status.conditions[1] = OtherCondition
  /\ wc[SeqProc].status.conditions[3] = OtherCondition

\* C14: when an invocation returns an error, the Ready condition stored on
\* the spec object is not True.
NoReadyTrueAfterError ==
  \A p \in Procs :
    (pc[p] = "done" /\ hist[p].result = "err" /\ cr.exists)
    => \A i \in 1..Len(cr.status.conditions) :
         cr.status.conditions[i].type = "Ready"
         => cr.status.conditions[i].status # "True"

\* C15: the phase, message, replicas and endpoints the status deriver
\* produces depend on the spec and the observed workload only: they are
\* those it produces for the same spec and workload from an empty status.
StatusCore(st) == <<st.phase, st.message, st.replicas, st.rest, st.metrics>>

DeriverMemoryless ==
  \A p \in Procs :
    pc[p] = "statusWrite"
    => StatusCore(wc[p].status)
         = StatusCore(DerivePhase(EmptyStatus, wc[p].spec, hist[p].seen))

\* The spec a single invocation builds from when it starts with the
\* generation not yet observed: it performs the observedGeneration write,
\* whose answer is decoded into the defaulted working copy.
SingleRunSpec(c) == DecodeInto(setDefaults(c.spec), c.spec)

\* C16: for a spec that is never edited, whose dependents are all the
\* controller's, a successful invocation leaves what one uninterrupted
\* successful invocation leaves from the state in which it began or, if
\* failed invocations preceded it, in which the first of them began: the
\* status derived from the status stored then and, when that state was the
\* fresh one, every enabled step's object as the single invocation builds it.
ResumeSameAsSingleRun ==
  \A p \in Procs :
    (/\ pc[p] = "done" /\ hist[p].result = "ok" /\ hist[p].fetched
     /\ cr.exists /\ cr.generation = 1
     /\ \A k \in Kinds : objs[k].exists => objs[k].by = "ctrl")
    => LET s   == SingleRunSpec(cr)
           st0 == [env.base EXCEPT !.observedGeneration = cr.generation]
           st1 == DerivePhase(st0, wc[p].spec, hist[p].seen)
       IN  /\ env.base.observedGeneration # cr.generation
              => objs = [k \in Kinds |-> IF StepEnabled(s, k)
                                         THEN [NewObject(k, s) EXCEPT !.owner = Owner]
                                         ELSE Absent]
           /\ cr.status
                = [st1 EXCEPT !.conditions = UpsertCondition(@, ReadyCondition(st1))]

\* A failed invocation had created part of the dependents; the next one
\* created the rest and wrote the status.
ResumeWitness ==
  /\ pc[SeqProc] = "done"
  /\ hist[SeqProc].result = "ok"
  /\ hist[SeqProc].resumed
  /\ hist[SeqProc].clean
  /\ cr.exists /\ cr.generation = 1
  /\ "svc" \in hist[SeqProc].wrote
  /\ "pvc" \notin hist[SeqProc].wrote
  /\ \A k \in {"pvc", "lscfg", "restcfg", "deploy", "svc"} :
       objs[k].exists /\ objs[k].by = "ctrl"
  /\ ~objs["ing"].exists
  /\ cr.status.phase = "Running"

\* C17: for two distinct identities in one namespace, no derived name of
\* one coincides with a derived name of the other for the same object kind;
\* under every interleaving no invocation reads or writes an object owned by
\* the other identity; and when both have returned, both succeeded and the
\* store and the statuses are those of running one reconcile after the other,
\* in either order.
IdentitiesIsolated ==
  LET a == SeqProc
      b == CHOOSE q \in Procs : q # SeqProc
      empty == [key \in TwoKeys |-> Absent]
  IN  /\ \A k1, k2 \in Kinds : ObjectKey(k1, cr[a].name) # ObjectKey(k2, cr[b].name)
      /\ \A p \in Procs : \A key \in hist[p].read \cup hist[p].wrote :
           objs[key].exists => objs[key].owner = cr[p].name
      /\ (pc[a] = "done" /\ pc[b] = "done")
         => /\ hist[a].result = "ok" /\ hist[b].result = "ok"
            /\ objs = RunFrom(RunFrom(empty, cr[a], 1), cr[b], 1)
            /\ objs = RunFrom(RunFrom(empty, cr[b], 1), cr[a], 1)
            /\ cr[a].status = StatusAlone(cr[a])
            /\ cr[b].status = StatusAlone(cr[b])

\* Both invocations returned after interleaved steps; one identity's name is
\* the other's with a dependent's suffix, and both wrote ConfigMaps.
TwoIdentitiesWitness ==
  LET a == SeqProc
      b == CHOOSE q \in Procs : q # SeqProc
  IN  /\ pc[a] = "done" /\ pc[b] = "done"
      /\ cr[a].name = <<"a">>
      /\ cr[b].name = <<"a">> \o Suffix("restcfg")
      /\ ObjectKey("restcfg", cr[a].name) \in hist[a].wrote
      /\ ObjectKey("lscfg", cr[b].name) \in hist[b].wrote
      /\ objs[ObjectKey("restcfg", cr[a].name)].owner = cr[a].name
      /\ objs[ObjectKey("deploy", cr[b].name)].owner = cr[b].name

\* C18: when invocations of one identity overlap, a dependent is written by
\* at most one of them and every object the controller created has its owner
\* link; a create that finds the name taken, an update of an object that
\* changed since it was read, and a status write from a copy older than the
\* stored spec object change nothing and make the invocation return the
\* error.
OverlapWritesOnce ==
  /\ \A k \in Kinds :
       /\ \A p, q \in Procs :
            (k \in hist[p].wrote /\ k \in hist[q].wrote) => p = q
       /\ (objs[k].exists /\ objs[k].by = "ctrl") => objs[k].owner = Owner

OverlapLoserFails ==
  \A p \in Procs :
    LET k == step[p]
        lost ==
          \/ pc[p] = "create" /\ objs[k].exists
          \/ pc[p] = "update" /\ objs[k] # [wc[p].obj EXCEPT !.owner = ""]
          \/ /\ pc[p] \in {"obsgen", "statusWrite"}
             /\ \/ ~cr.exists
                \/ wc[p].generation # cr.generation
                \/ wc[p].status.observedGeneration # cr.status.observedGeneration
    IN  (lost /\ pc'[p] # pc[p])
        => /\ pc'[p] = "done"
           /\ hist'[p].result = "err"
           /\ cr' = cr /\ objs' = objs

OverlapSafe == []OverlapWritesOnce /\ [][OverlapLoserFails]_vars

\* Both invocations reached the create of the service; one created it, the
\* other's create failed and it returned the error.
LostCreateWitness ==
  \E p, q \in Procs :
    /\ p # q
    /\ env.events = 0
    /\ "svc" \in hist[p].wrote
    /\ objs["svc"].exists /\ objs["svc"].by = "ctrl" /\ objs["svc"].owner = Owner
    /\ pc[q] = "done"
    /\ hist[q].result = "err"
    /\ hist[q].failStep = "svc"
    /\ "svc" \notin hist[q].wrote

\* C19: while the spec object exists, no step removes or replaces a
\* dependent: an object that exists still exists after the step, made by
\* the same hand and with the same content, also when the current spec no
\* longer enables its step.
DependentsPersist ==
  [][\A k \in Kinds :
       (objs[k].exists /\ cr.exists /\ cr'.exists)
       => /\ objs'[k].exists
          /\ objs'[k].by = objs[k].by
          /\ objs'[k].content = objs[k].content]_vars

\* The API was switched off after its service and config document were
\* created; a later reconcile succeeded and both are still there.
DisabledFeatureWitness ==
  /\ cr.exists
  /\ ~RestEnabled(setDefaults(cr.spec))
  /\ pc[SeqProc] = "done"
  /\ hist[SeqProc].result = "ok"
  /\ hist[SeqProc].fetched
  /\ hist[SeqProc].clean
  /\ wc[SeqProc].generation = cr.generation
  /\ objs["svc"].exists /\ objs["svc"].by = "ctrl"
  /\ objs["restcfg"].exists /\ objs["restcfg"].by = "ctrl"

\* C20: when the workload lookup of the status deriver fails with an error
\* other than not-found and the status write succeeds, the stored status has
\* phase Failed, a message that contains the error, and a Ready condition
\* that is False.
LookupErrorGivesFailed ==
  \A p \in Procs :
    /\ (pc[p] = "statusWrite" /\ hist[p].seen.kind = "error")
       => /\ wc[p].status.phase = "Failed"
          /\ \E i \in 1..Len(wc[p].status.message) :
               wc[p].status.message[i] = hist[p].seen.err
    /\ (pc[p] = "done" /\ hist[p].result = "ok" /\ hist[p].seen.kind = "error")
       => /\ cr.status.phase = "Failed"
          /\ \E i \in 1..Len(cr.status.message) :
               cr.status.message[i] = hist[p].seen.err
          /\ \E i \in 1..Len(cr.status.conditions) :
               /\ cr.status.conditions[i].type = "Ready"
               /\ cr.status.conditions[i].status = "False"
          /\ \A i \in 1..Len(cr.status.conditions) :
               cr.status.conditions[i].type = "Ready"
               => cr.status.conditions[i].status = "False"

\* A status that was Running has been rewritten as Failed after the lookup
\* error, and Reconcile returned success.
LookupErrorWitness ==
  /\ pc[SeqProc] = "done"
  /\ hist[SeqProc].result = "ok"
  /\ hist[SeqProc].seen.kind = "error"
  /\ hist[SeqProc].statusWrites > 0
  /\ cr.exists
  /\ cr.status.phase = "Failed"
  /\ cr.status.replicas > 0
  /\ cr.status.conditions[1].status = "False"

\* C21: a store error on any call of an invocation makes the invocation
\* return an error: the step that got the error ends the invocation with
\* that error and writes nothing, an invocation whose workload lookup failed
\* does not return success, and no step is run twice in one invocation.
StoreErrorEndsInvocation ==
  \A p \in Procs :
    (pc'[p] # pc[p] /\ env'.events = env.events + 1)
    => /\ pc'[p] = "done"
       /\ hist'[p].result = "err"
       /\ cr' = cr /\ objs' = objs

StoreCallsOnce ==
  \A p \in Procs :
    /\ \A i, j \in 1..Len(hist[p].ran) : hist[p].ran[i] = hist[p].ran[j] => i = j
    /\ (pc[p] = "done" /\ hist[p].seen.kind = "error") => hist[p].result = "err"

StoreErrorsPropagate == []StoreCallsOnce /\ [][StoreErrorEndsInvocation]_vars

\* C22: no step of an invocation whose defaulted spec enables network
\* exposure without a hostname changes the stored phase, message, replicas,
\* endpoints or conditions; when the invocation has returned the
\* missing-hostname error, every object it wrote and the object of every
\* enabled step before the ingress step are in the store, owned.
HostErrorKeepsStatus ==
  \A p \in Procs :
    (/\ hist'[p].fetched
     /\ IngressEnabled(wc'[p].spec) /\ wc'[p].spec.host = ""
     /\ cr.exists /\ cr'.exists)
    => /\ StatusCore(cr'.status) = StatusCore(cr.status)
       /\ cr'.status.conditions = cr.status.conditions

HostErrorKeepsObjects ==
  \A p \in Procs :
    (/\ pc[p] = "done" /\ hist[p].failStep = "ing" /\ wc[p].spec.host = ""
     /\ cr.exists)
    => /\ hist[p].result = "err"
       /\ \A k \in hist[p].wrote : objs[k].exists /\ objs[k].owner = Owner
       /\ \A k \in Kinds \ {"ing"} :
            StepEnabled(wc[p].spec, k) => (objs[k].exists /\ objs[k].owner = Owner)

HostErrorFrame == []HostErrorKeepsObjects /\ [][HostErrorKeepsStatus]_vars

\* The status was Running; the spec was edited to expose the database without
\* a hostname; the next invocation created nothing new, returned the error
\* and the status is still the Running one.
HostErrorFrameWitness ==
  /\ pc[SeqProc] = "done"
  /\ hist[SeqProc].failStep = "ing"
  /\ hist[SeqProc].result = "err"
  /\ wc[SeqProc].spec.host = ""
  /\ hist[SeqProc].obsWrote = 2
  /\ cr.exists
  /\ cr.status.phase = "Running"
  /\ cr.status.observedGeneration = 2
  /\ Len(cr.status.conditions) = 1
  /\ cr.status.conditions[1].status = "True"
  /\ \A k \in {"pvc", "lscfg", "deploy"} : objs[k].exists

\* The first invocation for a spec without a hostname: the objects of the
\* earlier steps were created in it and the status was never derived.
HostErrorFirstRunWitness ==
  /\ pc[SeqProc] = "done"
  /\ hist[SeqProc].failStep = "ing"
  /\ wc[SeqProc].spec.host = ""
  /\ hist[SeqProc].wrote = {"pvc", "lscfg", "restcfg", "deploy", "svc"}
  /\ \A k \in Kinds \ {"ing"} : objs[k].exists
  /\ cr.status.phase = ""
  /\ cr.status.conditions = <<>>

\* C23 as stated: if from some point on the workload reports a ready replica
\* the stored status is, from some point on, Running with Ready True.
ReadyTrue(st) ==
  \E i \in 1..Len(st.conditions) :
    st.conditions[i].type = "Ready" /\ st.conditions[i].status = "True"

RunningReady == cr.status.phase = "Running" /\ ReadyTrue(cr.status)

HostlessExposure(s) == IngressEnabled(setDefaults(s)) /\ HostMissing(setDefaults(s))

\* No store call is about to be refused as a conflict: the object an update
\* would replace, and the spec object a status write would replace, are as
\* the invocation read them.
NoConflictPending ==
  \A p \in Procs :
    /\ pc[p] = "update" => wc[p].objFresh
    /\ pc[p] = "statusWrite" => wc[p].fresh

EventuallyRunning == <>[](ready > 0 /\ NoConflictPending) => <>[]RunningReady

\* C23 amended: the same, for a spec that does not enable network exposure
\* without a hostname.
EventuallyRunningWithHost ==
  <>[](ready > 0 /\ NoConflictPending /\ ~HostlessExposure(cr.spec)) => <>[]RunningReady

\* The status was Pending, the spec was edited, the workload became ready and
\* a later invocation stored Running for a spec that exposes the database.
EventuallyRunningWitness ==
  /\ pc[SeqProc] = "done"
  /\ hist[SeqProc].result = "ok"
  /\ ready > 0
  /\ cr.generation = 2
  /\ IngressEnabled(wc[SeqProc].spec)
  /\ RunningReady
  /\ cr.status.replicas = ready

\* C24: the document the replication config builder returns has one entry
\* per replica, in spec order, and the url of the entry for a replica is
\* s3://<bucket>/<path> for kind s3, abs://<bucket>/<path> for azure,
\* gs://<bucket>/<path> for gcs, file:///backups/<path> for local and the s3
\* form for any other kind, an unset path counting as empty.
SchemeOf(type) ==
  CASE type = "azure" -> "abs"
    [] type = "gcs"   -> "gs"
    [] type = "local" -> "file"
    [] OTHER          -> "s3"

ReplicaURLsByKind ==
  pc[SeqProc] = "done" =>
    /\ Len(objs.doc) = IF cr.replicas = <<>> THEN 1 ELSE 1 + 3 * Len(cr.replicas)
    /\ \A i \in 1..Len(cr.replicas) :
         LET r    == cr.replicas[i]
             path == IF r.path = "nil" THEN "" ELSE r.path
             url  == IF SchemeOf(r.type) = "file"
                     THEN "file:///backups/" \o path
                     ELSE SchemeOf(r.type) \o "://" \o r.bucket \o "/" \o path
         IN  /\ objs.doc[3 * i - 1] = "    - path: /var/lib/sqlite/" \o cr.name
             /\ objs.doc[3 * i + 1] = "        url: " \o url

\* The scenario of the spec: replicas (s3, b1, p1) and (local, p2).
ReplicaScenarioWitness ==
  /\ pc[SeqProc] = "done"
  /\ cr.replicas = <<[type |-> "s3", bucket |-> "b1", path |-> "p1"],
                     [type |-> "local", bucket |-> "", path |-> "p2"]>>
  /\ objs.doc = <<"dbs:",
                  "    - path: /var/lib/sqlite/database.db",
                  "      replica:",
                  "        url: s3://b1/p1",
                  "    - path: /var/lib/sqlite/database.db",
                  "      replica:",
                  "        url: file:///backups/p2">>

\* C25: for every input spec the defaulting pass returns a spec whose
\* database file name, storage size and access mode are not empty and whose
\* replication, API and network-exposure sub-configs are present; what the
\* input set is returned as given; an unset replication sub-config comes back
\* enabled, unset API and network-exposure sub-configs come back disabled.
DefaultsTotal ==
  pc[SeqProc] = "done" =>
    LET in  == cr.spec
        out == wc[SeqProc].spec
    IN  /\ out.name # "" /\ out.size # "" /\ out.accessMode # ""
        /\ out.litestream # "nil" /\ out.rest # "nil" /\ out.ingress # "nil"
        /\ in.name # "" => out.name = in.name
        /\ in.size # "" => out.size = in.size
        /\ in.accessMode # "" => out.accessMode = in.accessMode
        /\ in.litestream # "nil" => out.litestream = in.litestream
        /\ in.rest # "nil" => SameRest(out, in)
        /\ in.ingress # "nil" => SameIngress(out, in)
        /\ in.litestream = "nil" => out.litestream = "on"
        /\ in.rest = "nil" => out.rest = "off"
        /\ in.ingress = "nil" => out.ingress = "off"

\* Some fields set, some not: the set ones (an API sub-config with port 0
\* and no metrics part among them) came back as given, the others defaulted.
DefaultsMixedWitness ==
  /\ pc[SeqProc] = "done"
  /\ cr.spec.name = "" /\ cr.spec.size = "2Gi"
  /\ cr.spec.accessMode = "ReadWriteOnce"
  /\ cr.spec.litestream = "nil" /\ cr.spec.ingress = "nil"
  /\ cr.spec.rest = "on" /\ cr.spec.port = 0 /\ cr.spec.metrics = "nil"
  /\ wc[SeqProc].spec.name = "database.db" /\ wc[SeqProc].spec.size = "2Gi"
  /\ wc[SeqProc].spec.accessMode = "ReadWriteOnce"
  /\ wc[SeqProc].spec.litestream = "on" /\ wc[SeqProc].spec.ingress = "off"
  /\ wc[SeqProc].spec.rest = "on" /\ wc[SeqProc].spec.port = 0
  /\ wc[SeqProc].spec.metrics = "nil"

\* C26: the service an invocation created exposes the API port of the spec
\* and forwards it to the container port of the API sidecar, which is that
\* same port; with metrics enabled it exposes the metrics port of the spec.
ServiceExposesSpecPort ==
  \A p \in Procs :
    (/\ pc[p] = "done" /\ "svc" \in hist[p].wrote
     /\ objs["svc"].exists /\ objs["svc"].by = "ctrl")
    => LET s   == wc[p].spec
           svc == objs["svc"].content
       IN  /\ svc.port = s.port
           /\ svc.targetPort = BuildDeployment(s).httpPort
           /\ BuildDeployment(s).httpPort = s.port
           /\ MetricsEnabled(s) => /\ svc.metricsPort = s.metricsPort
                                   /\ svc.metricsTarget = s.metricsPort

\* C27: while an invocation runs its ensure steps and its status step on a
\* spec object that has not been edited since it was fetched, its working
\* copy holds the defaulted spec, whether or not it made the
\* observedGeneration write, and every object it created is the builder
\* output for the defaulted spec.
EnsureFromDefaultedSpec ==
  \A p \in Procs :
    (/\ pc[p] \in {"get", "create", "update", "statusGet", "statusWrite"}
     /\ cr.exists /\ wc[p].generation = cr.generation)
    => /\ wc[p].spec = setDefaults(cr.spec)
       /\ \A k \in hist[p].wrote :
            objs[k].by = "ctrl" => objs[k].content = Desired(k, setDefaults(cr.spec))

\* C28: the init step never creates the database file more than once and
\* never touches a database file that was there before it first ran; once a
\* run of the script is past its guarded block, a file that was absent has
\* been created exactly once.
InitStepIdempotent ==
  /\ objs.created <= 1
  /\ objs.had => (objs.created = 0 /\ objs.files[DbFile(cr)] = "data")
  /\ (~objs.had /\ pc[SeqProc] \in {"last", "follow", "exited0", "main"})
       => (objs.created = 1 /\ IsFile(objs.files, DbFile(cr)))

\* The same for a database name the shell reads as one word.
InitStepIdempotentOneWord ==
  Len(Fields(cr.name)) = 1 => InitStepIdempotent

\* C29: when the mounted SQL (if any) runs clean, the init container
\* returns, in both variants.
InitStepTerminates ==
  cr.sql \in {"none", "ok"} => <>(pc[SeqProc] \in {"exited0", "main"})

\* Without an init-script reference it does.
InitStepTerminatesDefault ==
  cr.initScript = "nil" => <>(pc[SeqProc] \in {"exited0", "main"})

\* With an init-script reference the pod never has a ready replica.
InitScriptNeverReady ==
  cr.initScript # "nil" => ready = 0

\* C30: whenever the ingress the reconciler created exists, the service its
\* rule routes to exists as well.
IngressHasService ==
  (objs["ing"].exists /\ objs["ing"].by = "ctrl") => objs["svc"].exists

\* C31: after a successful invocation, a port published in
\* status.endpoints.rest or status.endpoints.metrics is a port the service
\* N-service exposes.
ExposedPorts(svc) == {svc.port, svc.metricsPort} \ {0}

EndpointPortsExposed ==
  \A p \in Procs :
    (pc[p] = "done" /\ hist[p].result = "ok" /\ hist[p].statusWrites > 0
     /\ objs["svc"].exists /\ objs["svc"].by = "ctrl")
    => /\ cr.status.rest # 0 => cr.status.rest \in ExposedPorts(objs["svc"].content)
       /\ cr.status.metrics # 0 => cr.status.metrics \in ExposedPorts(objs["svc"].content)

\* The objects the volume list of a workload refers to: the storage claim,
\* the replication config when the replicator runs, the API config when the
\* API sidecar runs.
VolumeSources(d) ==
  {"pvc"} \cup (IF d.litestream THEN {"lscfg"} ELSE {})
          \cup (IF d.rest THEN {"restcfg"} ELSE {})

\* C32: as long as nothing has been deleted (the spec object is still there,
\* so the garbage collector has removed nothing), whenever the workload the
\* reconciler created exists, the storage claim and every config document
\* its volume list refers to exist.
WorkloadVolumesExist ==
  (cr.exists /\ objs["deploy"].exists /\ objs["deploy"].by = "ctrl")
    => \A k \in VolumeSources(objs["deploy"].content) : objs[k].exists

\* An invocation has just created the workload with both sidecars, after
\* ensuring the claim and both config documents itself.
WorkloadVolumesWitness ==
  /\ cr.exists
  /\ pc[SeqProc] = "get"
  /\ step[SeqProc] \in {"svc", "ing", "status"}
  /\ {"pvc", "lscfg", "restcfg", "deploy"} \subseteq hist[SeqProc].wrote
  /\ objs["deploy"].by = "ctrl"
  /\ VolumeSources(objs["deploy"].content) = {"pvc", "lscfg", "restcfg"}
  /\ \A k \in {"pvc", "lscfg", "restcfg"} : objs[k].exists

\* C33: when an invocation that found the spec object returns success, the
\* storage claim and the workload exist, its status lookup found the
\* workload, and the status it stored does not say "Deployment not found".
SuccessHasWorkload ==
  \A p \in Procs :
    (pc[p] = "done" /\ hist[p].result = "ok" /\ hist[p].fetched /\ ~hist[p].notFound)
    => /\ objs["pvc"].exists
       /\ objs["deploy"].exists
       /\ hist[p].seen.kind # "notfound"
       /\ cr.status.message # "Deployment not found"

\* A first invocation created the claim and the workload and stored the
\* status of a workload that is not ready yet.
SuccessHasWorkloadWitness ==
  /\ pc[SeqProc] = "done"
  /\ hist[SeqProc].result = "ok"
  /\ hist[SeqProc].fetched
  /\ {"pvc", "deploy"} \subseteq hist[SeqProc].wrote
  /\ hist[SeqProc].seen = FoundLookup(0)
  /\ cr.status.phase = "Pending"
  /\ cr.status.message = "Deployment is starting"

\* C34: the workload an invocation builds at its workload step has at least
\* one container, and an invocation whose store calls all succeed, with no
\* workload there before, does not fail at the workload step.
WorkloadHasContainer ==
  \A p \in Procs :
    /\ (pc[p] \in {"get", "create"} /\ step[p] = "deploy")
         => Len(buildContainers(wc[p].spec)) >= 1
    /\ (pc[p] = "done" /\ hist[p].failStep = "deploy")
         => (env.events > 0 \/ objs["deploy"].exists)

HasArg(c, a) == \E i \in 1..Len(c.args) : c.args[i] = a

VolumeNames(vs) == {vs[i].name : i \in 1..Len(vs)}

MountsOf(c) == {c.mounts[i] : i \in 1..Len(c.mounts)}

\* Every volume mount of the init container and of every container names a
\* volume of the template.
MountsNameVolumes ==
  pc[SeqProc] = "done"
    => /\ \A i \in 1..Len(objs.initMounts) :
            objs.initMounts[i].name \in VolumeNames(objs.volumes)
       /\ \A i \in 1..Len(objs.containers) :
            \A m \in MountsOf(objs.containers[i]) : m.name \in VolumeNames(objs.volumes)

\* A container that is given --auth-token-file has the auth-secret volume
\* defined in its template.
AuthVolumeDefined ==
  pc[SeqProc] = "done"
    => \A i \in 1..Len(objs.containers) :
         HasArg(objs.containers[i], "--auth-token-file")
           => "sqlite-rest-auth" \in VolumeNames(objs.volumes)

\* C35: in a finished pod template, a container that is given
\* --auth-token-file /etc/auth/token has the auth-secret volume defined and
\* mounted at /etc/auth, and every volume mount names a volume of the
\* template.
AuthTokenMounted ==
  /\ MountsNameVolumes
  /\ AuthVolumeDefined
  /\ pc[SeqProc] = "done"
       => \A i \in 1..Len(objs.containers) :
            HasArg(objs.containers[i], "--auth-token-file")
              => Mount("sqlite-rest-auth", "/etc/auth") \in MountsOf(objs.containers[i])

====
